---- MODULE Spec2Model ----
(***************************************************************************)
(* Funding-arbitrage dashboard: the rolling trackers (GapTracker,          *)
(* HistoryTracker) and the FundingArbEngine of src/engine, as a state      *)
(* machine.                                                                *)
(*                                                                         *)
(* Numbers.  The program computes with Python floats.  The model uses      *)
(* fixed point: a percentage p is the integer p * PCT (one unit is         *)
(* 0.005 %), prices are integers (hundredths), and a quotient is rounded   *)
(* to the nearest unit, halves away from zero, so that negating the        *)
(* numerator negates the result as it does for floats.                     *)
(* An Optional value is <<>> (None) or <<v>>.                              *)
(* Time is in minutes; datetime.utcnow() is the variable now.              *)
(***************************************************************************)
EXTENDS Integers, Sequences, FiniteSets, TLC

VARIABLES
    now,            \* datetime.utcnow(), minutes
    gapHistory,     \* GapTracker._history: key -> deque of [ts, gap]
    metricHistory,  \* HistoryTracker._history: key -> deque of [ts, data]
    gapLog,         \* history variable: every GapTracker.add call, per
                    \* <<symbol, {exchange, exchange}>>, never evicted
    prevFundings,   \* st.session_state.prev_fundings: key -> funding rate
    cycleLog,       \* history variable: the ticker list of every refresh
                    \* cycle of the squeeze tab, oldest first
    nOps,           \* number of state-changing calls made so far
    ret             \* the last call: its name, arguments and return value

vars == <<now, gapHistory, metricHistory, gapLog, prevFundings, cycleLog, nOps, ret>>

---------------------------------------------------------------------------
(* Bounds of the model *)

MaxPoints == 3
MaxOps == 4
MaxTicks == 3
TickMinutes == 30

---------------------------------------------------------------------------
(* Numbers *)

PCT == 200

None == <<>>
Some(v) == <<v>>
IsNone(x) == x = <<>>
Val(x) == x[1]

Abs(x) == IF x < 0 THEN -x ELSE x
Min(a, b) == IF a <= b THEN a ELSE b

\* a / b for b > 0, rounded to the nearest integer, halves away from zero
RoundDivPos(a, b) == IF a >= 0 THEN (2 * a + b) \div (2 * b)
                               ELSE -((2 * (-a) + b) \div (2 * b))

\* a / b for b # 0
RoundDiv(a, b) == IF b > 0 THEN RoundDivPos(a, b) ELSE RoundDivPos(-a, -b)

RECURSIVE SqrtSearch(_, _, _)
SqrtSearch(n, lo, hi) ==
    IF lo >= hi THEN lo
    ELSE LET mid == (lo + hi + 1) \div 2
         IN  IF mid * mid <= n THEN SqrtSearch(n, mid, hi)
                               ELSE SqrtSearch(n, lo, mid - 1)

\* floor of the square root of n >= 0
ISqrt(n) == SqrtSearch(n, 0, Min(n, 46340))

RECURSIVE SeqSum(_)
SeqSum(s) == IF s = <<>> THEN 0 ELSE Head(s) + SeqSum(Tail(s))

---------------------------------------------------------------------------
(* Python's order on the exchange names (str.__gt__) and str.lower() *)

ExchangeOrder == <<"Binance", "binance", "bybit", "gate", "okx", "zeta">>

StrIndex(s) == CHOOSE i \in 1..Len(ExchangeOrder) : ExchangeOrder[i] = s

StrGT(a, b) == StrIndex(a) > StrIndex(b)

Lower(s) == IF s = "Binance" THEN "binance" ELSE s

---------------------------------------------------------------------------
(* collections.deque(maxlen=...) *)

DequeAppendNoEvict(q, x, maxlen) == Append(q, x)

DequeAppend(q, x, maxlen) ==
    IF Len(q) >= maxlen THEN Append(Tail(q), x) ELSE Append(q, x)

---------------------------------------------------------------------------
(* GapTracker *)

WindowMinutes == 60

SentinelPct == 999

Sentinel == SentinelPct * PCT

KeyUnsorted(symbol, ex_a, ex_b) == <<symbol, ex_a, ex_b>>

_key(symbol, ex_a, ex_b) ==
    IF StrGT(ex_a, ex_b) THEN <<symbol, ex_b, ex_a>>
                         ELSE <<symbol, ex_a, ex_b>>

\* GapTracker.add: the dictionary after the call
GapTrackerAdd(h, t, symbol, ex_a, ex_b, gap_pct) ==
    LET key == _key(symbol, ex_a, ex_b)
        old == IF key \in DOMAIN h THEN h[key] ELSE <<>>
        new == DequeAppend(old, [ts |-> t, gap |-> gap_pct], MaxPoints)
    IN  [k \in (DOMAIN h) \cup {key} |-> IF k = key THEN new ELSE h[k]]

\* numpy.std of a non-empty list: sqrt(mean(|x - mean(x)|^2)), floored to
\* the unit.  With n = Len(xs) and s = sum(xs) the squared deviations sum
\* to (sum of (n*x - s)^2) / n^2, and the mean of them divides by n again.
NpStdSample(xs) ==
    LET n == Len(xs)
        s == SeqSum(xs)
        dev2 == [i \in 1..n |-> (n * xs[i] - s) * (n * xs[i] - s)]
    IN  ISqrt(SeqSum(dev2) \div (n * n * (n - 1)))

\* the floor of the mean of the squares of devs, summed as quotients and
\* remainders so that no intermediate value leaves the 32-bit range
MeanOfSquares(devs) ==
    LET n == Len(devs)
        q == SeqSum([i \in 1..n |-> (devs[i] * devs[i]) \div n])
        r == SeqSum([i \in 1..n |-> (devs[i] * devs[i]) % n])
    IN  q + r \div n

\* When the mean s / n is a whole number of units the deviations x - mean
\* are used directly, which gives the same value.
NpStd(xs) ==
    LET n == Len(xs)
        s == SeqSum(xs)
        dev2 == [i \in 1..n |-> (n * xs[i] - s) * (n * xs[i] - s)]
    IN  IF s % n = 0
        THEN ISqrt(MeanOfSquares([i \in 1..n |-> xs[i] - s \div n]))
        ELSE ISqrt(SeqSum(dev2) \div (n * n * n))

InWindowStrict(e, t, window) == e.ts > t - window

\* cutoff = datetime.utcnow() - timedelta(minutes=window); ts >= cutoff
InWindow(e, t, window) == e.ts >= t - window

RecentGaps(q, t) ==
    LET kept == SelectSeq(q, LAMBDA e : InWindow(e, t, WindowMinutes))
    IN  [i \in 1..Len(kept) |-> kept[i].gap]

GetStabilityMin2(h, t, symbol, ex_a, ex_b) ==
    LET key == _key(symbol, ex_a, ex_b)
    IN  IF key \notin DOMAIN h THEN Sentinel
        ELSE LET recent == RecentGaps(h[key], t)
             IN  IF Len(recent) < 2 THEN Sentinel ELSE NpStd(recent)

\* GapTracker.get_stability
get_stability(h, t, symbol, ex_a, ex_b) ==
    LET key == _key(symbol, ex_a, ex_b)
    IN  IF key \notin DOMAIN h THEN Sentinel
        ELSE LET recent == RecentGaps(h[key], t)
             IN  IF Len(recent) < 3 THEN Sentinel ELSE NpStd(recent)

---------------------------------------------------------------------------
(* HistoryTracker *)

\* what a call gives back: a returned value, or the exception it raised
Returned(v) == [exc |-> "", val |-> v]
Raised(e) == [exc |-> e, val |-> None]

\* dict.get(field)
DictGet(d, field) == IF field \in DOMAIN d THEN d[field] ELSE None

HistKey(exchange, symbol) == <<Lower(exchange), symbol>>

\* HistoryTracker.add: the dictionary after the call
HistoryTrackerAdd(h, t, exchange, symbol, data) ==
    LET key == HistKey(exchange, symbol)
        old == IF key \in DOMAIN h THEN h[key] ELSE <<>>
        new == DequeAppend(old, [ts |-> t, data |-> data], MaxPoints)
    IN  [k \in (DOMAIN h) \cup {key} |-> IF k = key THEN new ELSE h[k]]

FallbackPoints == 5

RECURSIVE ScanNewestOld(_, _, _, _)
ScanNewestOld(history, i, cutoff, field) ==
    IF i < 1 THEN None
    ELSE IF history[i].ts <= cutoff /\ field \in DOMAIN history[i].data
         THEN history[i].data[field]
         ELSE ScanNewestOld(history, i - 1, cutoff, field)

NewestAtOrBefore(history, cutoff, field) ==
    ScanNewestOld(history, Len(history), cutoff, field)

\* for ts, data in history: if ts <= cutoff and field in data: ...; break
RECURSIVE ScanOld(_, _, _, _)
ScanOld(history, i, cutoff, field) ==
    IF i > Len(history) THEN None
    ELSE IF history[i].ts <= cutoff /\ field \in DOMAIN history[i].data
         THEN history[i].data[field]
         ELSE ScanOld(history, i + 1, cutoff, field)

OldestAtOrBefore(history, cutoff, field) == ScanOld(history, 1, cutoff, field)

\* for ts, data in history[:5]: if field in data: ...; break
RECURSIVE ScanField(_, _, _)
ScanField(history, i, field) ==
    IF i > Len(history) THEN None
    ELSE IF field \in DOMAIN history[i].data
         THEN history[i].data[field]
         ELSE ScanField(history, i + 1, field)

FirstOfOldest(history, field) ==
    ScanField(SubSeq(history, 1, Min(FallbackPoints, Len(history))), 1, field)

\* (current - old_val) / abs(old_val) * 100; a float division by zero
\* raises ZeroDivisionError
DeltaPct(current, old_val) ==
    IF Abs(old_val) = 0 THEN Raised("ZeroDivisionError")
    ELSE Returned(Some(RoundDiv((current - old_val) * 100 * PCT, Abs(old_val))))

GetDeltaNoZeroGuard(h, t, exchange, symbol, field, minutes) ==
    LET key == HistKey(exchange, symbol)
    IN  IF key \notin DOMAIN h \/ Len(h[key]) < 2 THEN Returned(None)
        ELSE LET history == h[key]
                 current == DictGet(history[Len(history)].data, field)
                 old1 == OldestAtOrBefore(history, t - minutes, field)
                 old_val == IF IsNone(old1) THEN FirstOfOldest(history, field)
                                            ELSE old1
             IN  IF IsNone(current) \/ IsNone(old_val)
                 THEN Returned(None)
                 ELSE DeltaPct(Val(current), Val(old_val))

\* HistoryTracker.get_delta
get_delta(h, t, exchange, symbol, field, minutes) ==
    LET key == HistKey(exchange, symbol)
    IN  IF key \notin DOMAIN h \/ Len(h[key]) < 2 THEN Returned(None)
        ELSE LET history == h[key]
                 cutoff == t - minutes
                 current == DictGet(history[Len(history)].data, field)
                 old1 == OldestAtOrBefore(history, cutoff, field)
                 old_val == IF IsNone(old1) THEN FirstOfOldest(history, field)
                                            ELSE old1
             IN  IF IsNone(current) \/ IsNone(old_val) \/ Val(old_val) = 0
                 THEN Returned(None)
                 ELSE DeltaPct(Val(current), Val(old_val))

---------------------------------------------------------------------------
(* The log of GapTracker.add calls (history variable) *)

Pair(symbol, ex_a, ex_b) == <<symbol, {ex_a, ex_b}>>

LogAdd(log, t, symbol, ex_a, ex_b, gap_pct) ==
    LET p == Pair(symbol, ex_a, ex_b)
        old == IF p \in DOMAIN log THEN log[p] ELSE <<>>
    IN  [k \in (DOMAIN log) \cup {p} |->
            IF k = p THEN Append(old, [ts |-> t, gap |-> gap_pct]) ELSE log[k]]

---------------------------------------------------------------------------
(* FundingArbConfig and EXCHANGE_FEES (src/config.py), in units *)

gap_warning_threshold == PCT \div 20
gap_cutoff_threshold == PCT \div 10
GapRiskPenaltyTenths == 5
default_spread_bps == 5
min_net_edge == 0
StabilityLimitPct == 100

\* EXCHANGE_FEES[exchange]["taker"], and 0.05 for an exchange not listed
TakerFee(exchange) ==
    CASE exchange \in {"binance", "okx", "gate"} -> PCT \div 20
      [] exchange = "bybit" -> (PCT * 11) \div 200
      [] exchange \in {"bitget", "mexc"} -> (PCT * 6) \div 100
      [] OTHER -> PCT \div 20

---------------------------------------------------------------------------
(* TickerData (src/collectors/base.py) *)

\* Python truthiness of an Optional[float]
Truthy(x) == ~IsNone(x) /\ Val(x) # 0

\* TickerData.spread_bps: Returned(None), Returned(Some(bps)) or the
\* ZeroDivisionError of a zero bid/ask midpoint
spread_bps(ticker) ==
    IF Truthy(ticker.bid_price) /\ Truthy(ticker.ask_price)
       /\ Val(ticker.bid_price) > 0
    THEN LET bid == Val(ticker.bid_price)
             ask == Val(ticker.ask_price)
         IN  IF bid + ask = 0 THEN Raised("ZeroDivisionError")
             ELSE Returned(Some(RoundDiv((ask - bid) * 2 * 10000, bid + ask)))
    ELSE Returned(None)

---------------------------------------------------------------------------
(* FundingArbEngine *)

\* str.capitalize()
Capitalize(s) ==
    CASE s = "binance" -> "Binance"
      [] s = "bybit" -> "Bybit"
      [] s = "gate" -> "Gate"
      [] s = "okx" -> "Okx"
      [] s = "zeta" -> "Zeta"
      [] OTHER -> s

LegSpreadCostNoDefault(ticker) ==
    IF Truthy(spread_bps(ticker).val) THEN Val(spread_bps(ticker).val) ELSE 0

\* one leg of calculate_spread_cost
LegSpreadCost(ticker) ==
    IF Truthy(spread_bps(ticker).val) THEN Val(spread_bps(ticker).val)
                                      ELSE default_spread_bps

\* FundingArbEngine.calculate_spread_cost, in bps
calculate_spread_cost(ticker_a, ticker_b) ==
    LegSpreadCost(ticker_a) + LegSpreadCost(ticker_b)

CalculateFeeCostOneWay(exchange_a, exchange_b) ==
    TakerFee(exchange_a) + TakerFee(exchange_b)

\* FundingArbEngine.calculate_fee_cost
calculate_fee_cost(exchange_a, exchange_b) ==
    (TakerFee(exchange_a) + TakerFee(exchange_b)) * 2

CalculateNetEdgeNoSpread(funding_receive, funding_pay, fee_cost, spread_cost_bps, gap_stability) ==
    LET funding_diff == funding_receive - funding_pay
        gap_penalty == IF gap_stability < StabilityLimitPct * PCT
                       THEN RoundDiv(gap_stability * GapRiskPenaltyTenths, 10)
                       ELSE 0
    IN  funding_diff - fee_cost - gap_penalty

\* FundingArbEngine.calculate_net_edge
calculate_net_edge(funding_receive, funding_pay, fee_cost, spread_cost_bps, gap_stability) ==
    LET funding_diff == funding_receive - funding_pay
        spread_pct == RoundDiv(spread_cost_bps * PCT, 100)
        gap_penalty == IF gap_stability < StabilityLimitPct * PCT
                       THEN RoundDiv(gap_stability * GapRiskPenaltyTenths, 10)
                       ELSE 0
    IN  funding_diff - fee_cost - spread_pct - gap_penalty

\* float('inf') and a finite float, as ArbOpportunity.gap_stability holds them
PosInf == [inf |-> TRUE, v |-> 0]
Finite(v) == [inf |-> FALSE, v |-> v]

PassesChecksNoVolume(ticker_a, ticker_b, min_volume) ==
    /\ ticker_a.data_ok /\ ticker_b.data_ok
    /\ ~IsNone(ticker_a.funding_rate) /\ ~IsNone(ticker_b.funding_rate)
    /\ ~IsNone(ticker_a.mark_price) /\ ~IsNone(ticker_b.mark_price)

\* find_opportunities, the four checks that skip a pair (continue)
PassesChecks(ticker_a, ticker_b, min_volume) ==
    /\ ticker_a.data_ok /\ ticker_b.data_ok
    /\ ~IsNone(ticker_a.funding_rate) /\ ~IsNone(ticker_b.funding_rate)
    /\ ~IsNone(ticker_a.mark_price) /\ ~IsNone(ticker_b.mark_price)
    /\ LET vol_a == IF Truthy(ticker_a.volume_24h)
                    THEN Val(ticker_a.volume_24h) ELSE 0
           vol_b == IF Truthy(ticker_b.volume_24h)
                    THEN Val(ticker_b.volume_24h) ELSE 0
       IN  ~(Min(vol_a, vol_b) < min_volume)

LowerFundingIsShort(ticker_a, ticker_b) ==
    Val(ticker_a.funding_rate) <= Val(ticker_b.funding_rate)

\* find_opportunities: ticker_a is the SHORT leg
FirstIsShort(ticker_a, ticker_b) ==
    Val(ticker_a.funding_rate) >= Val(ticker_b.funding_rate)

\* gap_pct = (long.mark - short.mark) / mid_price * 100 with
\* mid_price = (short.mark + long.mark) / 2, for a non-zero mid_price
GapPct(short_mark, long_mark) ==
    RoundDiv((long_mark - short_mark) * 2 * 100 * PCT, short_mark + long_mark)

GapCutInclusive(gap_pct) == Abs(gap_pct) >= gap_cutoff_threshold

\* abs(gap_pct) > self.config.gap_cutoff_threshold
GapCut(gap_pct) == Abs(gap_pct) > gap_cutoff_threshold

\* abs(gap_pct) > self.config.gap_warning_threshold
GapWarning(gap_pct) == Abs(gap_pct) > gap_warning_threshold

BelowFloorInclusive(net_edge, min_edge) == net_edge <= min_edge

\* net_edge < min_edge
BelowFloor(net_edge, min_edge) == net_edge < min_edge

RecordGapUnlessCut(st, t, symbol, ex_a, ex_b, gap_pct) ==
    IF Abs(gap_pct) > gap_cutoff_threshold THEN st
    ELSE [st EXCEPT
            !.h = GapTrackerAdd(st.h, t, symbol, ex_a, ex_b, gap_pct),
            !.log = LogAdd(st.log, t, symbol, ex_a, ex_b, gap_pct)]

\* self.gap_tracker.add(symbol, ex_a, ex_b, gap_pct), noted in the log
RecordGap(st, t, symbol, ex_a, ex_b, gap_pct) ==
    [st EXCEPT
        !.h = GapTrackerAdd(st.h, t, symbol, ex_a, ex_b, gap_pct),
        !.log = LogAdd(st.log, t, symbol, ex_a, ex_b, gap_pct)]

\* the body of the innermost loop of find_opportunities for one symbol of
\* one exchange pair.  st carries the tracker (h), the log of add calls,
\* the opportunities appended so far (opps), the locals of every pair that
\* passed the checks (evals) and the exception raised, if any (exc).
\* ArbOpportunity.next_funding_min_a/b and timestamp are left out.
EvaluatePair(st, t, inp, ex_a, ex_b, symbol, min_volume, min_edge) ==
    LET ticker_a == inp.tickers[ex_a][symbol]
        ticker_b == inp.tickers[ex_b][symbol]
    IN
    IF ~PassesChecks(ticker_a, ticker_b, min_volume) THEN st
    ELSE
    LET a_short == FirstIsShort(ticker_a, ticker_b)
        short_ticker == IF a_short THEN ticker_a ELSE ticker_b
        short_ex == IF a_short THEN ex_a ELSE ex_b
        long_ticker == IF a_short THEN ticker_b ELSE ticker_a
        long_ex == IF a_short THEN ex_b ELSE ex_a
        short_mark == Val(short_ticker.mark_price)
        long_mark == Val(long_ticker.mark_price)
    IN
    IF short_mark + long_mark = 0
    THEN [st EXCEPT !.exc = "ZeroDivisionError"]
    ELSE
    LET gap_pct == GapPct(short_mark, long_mark)
        st2 == RecordGap(st, t, symbol, ex_a, ex_b, gap_pct)
        gap_stability == get_stability(st2.h, t, symbol, ex_a, ex_b)
    IN
    IF spread_bps(short_ticker).exc # "" \/ spread_bps(long_ticker).exc # ""
    THEN [st2 EXCEPT !.exc = "ZeroDivisionError"]
    ELSE
    LET spread_cost == calculate_spread_cost(short_ticker, long_ticker)
        fee_cost == calculate_fee_cost(short_ex, long_ex)
        short_funding == Val(short_ticker.funding_rate)
        long_funding == Val(long_ticker.funding_rate)
        net_edge == calculate_net_edge(
                        Abs(short_funding),
                        IF long_funding < 0 THEN Abs(long_funding) ELSE 0,
                        fee_cost, spread_cost, gap_stability)
        cut == GapCut(gap_pct)
        warning == IF ~cut /\ GapWarning(gap_pct)
                   THEN Some([text |-> "Gap warning", gap |-> gap_pct])
                   ELSE None
        kept == ~cut /\ ~BelowFloor(net_edge, min_edge)
        eval == [symbol |-> symbol, ex_a |-> ex_a, ex_b |-> ex_b,
                 short_ex |-> short_ex, long_ex |-> long_ex,
                 gap_pct |-> gap_pct, gap_stability |-> gap_stability,
                 spread_cost |-> spread_cost, fee_cost |-> fee_cost,
                 net_edge |-> net_edge, kept |-> kept]
        opp == [symbol |-> symbol,
                exchange_a |-> short_ex,
                price_a |-> short_mark,
                funding_a |-> short_funding,
                exchange_b |-> long_ex,
                price_b |-> long_mark,
                funding_b |-> long_funding,
                gap_pct |-> gap_pct,
                spread_cost_bps |-> spread_cost,
                gap_stability |-> IF gap_stability < StabilityLimitPct * PCT
                                  THEN Finite(gap_stability) ELSE PosInf,
                net_edge |-> net_edge,
                best_leg |-> <<Capitalize(short_ex), "SHORT",
                               Capitalize(long_ex), "LONG">>,
                warning |-> warning]
    IN  [st2 EXCEPT !.evals = Append(@, eval),
                    !.opps = IF kept THEN Append(@, opp) ELSE @]

\* for i, ex_a in enumerate(exchanges): for ex_b in exchanges[i+1:]
RECURSIVE ExchangePairs(_, _, _)
ExchangePairs(exchanges, i, j) ==
    IF i > Len(exchanges) THEN <<>>
    ELSE IF j > Len(exchanges) THEN ExchangePairs(exchanges, i + 1, i + 2)
    ELSE <<<<exchanges[i], exchanges[j]>>>> \o ExchangePairs(exchanges, i, j + 1)

\* for symbol in common_symbols: a Python set is iterated in an order the
\* program does not control; inp.symbol_order is the order of this call
CommonSymbols(inp, ex_a, ex_b) ==
    SelectSeq(inp.symbol_order,
              LAMBDA symbol : symbol \in (DOMAIN inp.tickers[ex_a])
                                           \cap (DOMAIN inp.tickers[ex_b]))

\* the (ex_a, ex_b, symbol) triples in the order the loops visit them
RECURSIVE Visits(_, _, _)
Visits(inp, pairs, k) ==
    IF k > Len(pairs) THEN <<>>
    ELSE LET common == CommonSymbols(inp, pairs[k][1], pairs[k][2])
         IN  [n \in 1..Len(common) |->
                 <<pairs[k][1], pairs[k][2], common[n]>>]
             \o Visits(inp, pairs, k + 1)

RECURSIVE EvaluateAll(_, _, _, _, _, _, _)
EvaluateAll(st, t, inp, visits, k, min_volume, min_edge) ==
    IF k > Len(visits) \/ st.exc # "" THEN st
    ELSE EvaluateAll(
             EvaluatePair(st, t, inp, visits[k][1], visits[k][2], visits[k][3],
                          min_volume, min_edge),
             t, inp, visits, k + 1, min_volume, min_edge)

RECURSIVE InsertBeforeEqual(_, _)
InsertBeforeEqual(sorted, x) ==
    IF sorted = <<>> THEN <<x>>
    ELSE IF Head(sorted).net_edge > x.net_edge
         THEN <<Head(sorted)>> \o InsertBeforeEqual(Tail(sorted), x)
         ELSE <<x>> \o sorted

\* list.sort(key=lambda x: x.net_edge, reverse=True): stable, so an element
\* goes behind every element whose net_edge is not smaller
RECURSIVE InsertByNetEdge(_, _)
InsertByNetEdge(sorted, x) ==
    IF sorted = <<>> THEN <<x>>
    ELSE IF Head(sorted).net_edge >= x.net_edge
         THEN <<Head(sorted)>> \o InsertByNetEdge(Tail(sorted), x)
         ELSE <<x>> \o sorted

RECURSIVE SortByNetEdge(_, _, _)
SortByNetEdge(opps, k, sorted) ==
    IF k > Len(opps) THEN sorted
    ELSE SortByNetEdge(opps, k + 1, InsertByNetEdge(sorted, opps[k]))

\* FundingArbEngine.find_opportunities: the tracker and the log after the
\* call, what the call gives back (res), and the locals of the pairs that
\* passed the checks (evals)
find_opportunities(h, log, t, inp, min_volume, min_edge_arg) ==
    LET min_edge == IF IsNone(min_edge_arg) THEN min_net_edge
                                            ELSE Val(min_edge_arg)
        visits == Visits(inp, ExchangePairs(inp.exchanges, 1, 2), 1)
        st == EvaluateAll([h |-> h, log |-> log, opps |-> <<>>,
                           evals |-> <<>>, exc |-> ""],
                          t, inp, visits, 1, min_volume, min_edge)
    IN  [h |-> st.h, log |-> st.log, evals |-> st.evals,
         res |-> IF st.exc # "" THEN Raised(st.exc)
                 ELSE Returned(SortByNetEdge(st.opps, 1, <<>>))]

---------------------------------------------------------------------------
(* Inputs of the direct tracker calls *)

Symbols == {"BTC/USDT", "ETH/USDT"}
GapSymbols == {"BTC/USDT"}
GapExchanges == {"binance", "okx"}
ReadExchanges == {"binance", "okx"}
GapValues == {-10, 0, 30}

LogOf(symbol, ex_a, ex_b) ==
    IF Pair(symbol, ex_a, ex_b) \in DOMAIN gapLog
    THEN gapLog[Pair(symbol, ex_a, ex_b)] ELSE <<>>

NoRet == [op |-> "none"]

Init ==
    /\ now = 0
    /\ gapHistory = <<>>
    /\ metricHistory = <<>>
    /\ gapLog = <<>>
    /\ prevFundings = <<>>
    /\ cycleLog = <<>>
    /\ nOps = 0
    /\ ret = NoRet

\* time passes between two calls
Tick ==
    /\ now < MaxTicks * TickMinutes
    /\ now' = now + TickMinutes
    /\ ret' = NoRet
    /\ UNCHANGED <<prevFundings, cycleLog, gapHistory, metricHistory, gapLog, nOps>>

\* a call of GapTracker.add with the symbol drawn from symbols
GapAddOf(symbols) ==
    /\ nOps < MaxOps
    /\ \E symbol \in symbols, ex_a \in GapExchanges, ex_b \in GapExchanges,
          gap \in GapValues :
          /\ ex_a # ex_b
          /\ gapHistory' = GapTrackerAdd(gapHistory, now, symbol, ex_a, ex_b, gap)
          /\ gapLog' = LogAdd(gapLog, now, symbol, ex_a, ex_b, gap)
          /\ ret' = [op |-> "add", symbol |-> symbol, ex_a |-> ex_a,
                     ex_b |-> ex_b, gap |-> gap]
    /\ nOps' = nOps + 1
    /\ UNCHANGED <<prevFundings, cycleLog, now, metricHistory>>

GapAdd == GapAddOf(GapSymbols)

GapAddWide == GapAddOf(Symbols)

\* a call of GapTracker.get_stability
GapGetStability ==
    /\ \E symbol \in Symbols, ex_a \in ReadExchanges, ex_b \in ReadExchanges :
          /\ ex_a # ex_b
          /\ ret' = [op |-> "get_stability", symbol |-> symbol, ex_a |-> ex_a,
                     ex_b |-> ex_b,
                     val |-> get_stability(gapHistory, now, symbol, ex_a, ex_b)]
    /\ UNCHANGED <<prevFundings, cycleLog, now, gapHistory, metricHistory, gapLog, nOps>>

NextGap == Tick \/ GapAdd \/ GapGetStability

SpecGap == Init /\ [][NextGap]_vars

---------------------------------------------------------------------------
(* Direct calls of HistoryTracker *)

HistSymbols == {"BTCUSDT"}
HistExchanges == {"binance", "Binance"}
HistExchangesWide == {"binance", "Binance", "okx"}
LookbackMinutes == 60

\* the snapshot calculate_score records: always the three fields, each a
\* number or None
SnapshotData ==
    [oi : {None, Some(0), Some(10), Some(15)},
     price : {Some(20)},
     funding : {None}]

ReadFields == {"oi", "price", "funding", "volume"}

\* a call of HistoryTracker.add with the exchange drawn from exs
HistAddOf(exs) ==
    /\ nOps < MaxOps
    /\ \E exchange \in exs, symbol \in HistSymbols, data \in SnapshotData :
          /\ metricHistory' =
                 HistoryTrackerAdd(metricHistory, now, exchange, symbol, data)
          /\ ret' = [op |-> "hist_add", exchange |-> exchange,
                     symbol |-> symbol, data |-> data]
    /\ nOps' = nOps + 1
    /\ UNCHANGED <<prevFundings, cycleLog, now, gapHistory, gapLog>>

HistAdd == HistAddOf(HistExchanges)

HistAddWide == HistAddOf(HistExchangesWide)

\* a call of HistoryTracker.get_delta
HistGetDelta ==
    /\ \E exchange \in HistExchanges, symbol \in HistSymbols,
          field \in ReadFields :
          ret' = [op |-> "get_delta", exchange |-> exchange,
                  symbol |-> symbol, field |-> field,
                  res |-> get_delta(metricHistory, now, exchange, symbol,
                                    field, LookbackMinutes)]
    /\ UNCHANGED <<prevFundings, cycleLog, now, gapHistory, metricHistory, gapLog, nOps>>

NextHist == Tick \/ HistAdd \/ HistGetDelta

SpecHist == Init /\ [][NextHist]_vars

NextTrackers == GapAddWide \/ HistAddWide

SpecTrackers == Init /\ [][NextTrackers]_vars

---------------------------------------------------------------------------
(* Calls of FundingArbEngine.find_opportunities *)

MaxWideCalls == 2

Ticker(data_ok, funding_rate, mark_price, volume_24h) ==
    [data_ok |-> data_ok, funding_rate |-> funding_rate,
     mark_price |-> mark_price, volume_24h |-> volume_24h,
     bid_price |-> None, ask_price |-> None]

\* how many of the four things the checks look at are unavailable or low
Defects(ticker) ==
    (IF ticker.data_ok THEN 0 ELSE 1)
    + (IF IsNone(ticker.funding_rate) THEN 1 ELSE 0)
    + (IF IsNone(ticker.mark_price) THEN 1 ELSE 0)
    + (IF ticker.volume_24h = Some(2000000) THEN 0 ELSE 1)

\* the tickers of the wide inputs: every combination of the fields with at
\* most one of them unavailable or low
WideTickers ==
    {ticker \in [data_ok : BOOLEAN,
                 funding_rate : {None, Some(-4), Some(100)},
                 mark_price : {None, Some(10000), Some(10002)},
                 volume_24h : {None, Some(500000), Some(2000000)},
                 bid_price : {None},
                 ask_price : {None}] : Defects(ticker) <= 1}

\* the second symbol: on no exchange, on one only, or on both
EthDicts ==
    {<<>>,
     [binance |-> Ticker(TRUE, Some(100), Some(500), Some(2000000))],
     [binance |-> Ticker(TRUE, Some(100), Some(500), Some(2000000)),
      okx |-> Ticker(TRUE, Some(-4), Some(500), Some(2000000))]}

ExchangeDict(btc, eth, exchange) ==
    IF exchange \in DOMAIN eth
    THEN [symbol \in {"BTC/USDT", "ETH/USDT"} |->
             IF symbol = "BTC/USDT" THEN btc ELSE eth[exchange]]
    ELSE [symbol \in {"BTC/USDT"} |-> btc]

WideInputs ==
    {[exchanges |-> exchanges,
      symbol_order |-> symbol_order,
      tickers |-> [binance |-> ExchangeDict(btc_a, eth, "binance"),
                   okx |-> ExchangeDict(btc_b, eth, "okx")]] :
        exchanges \in {<<"binance", "okx">>, <<"okx", "binance">>},
        symbol_order \in {<<"BTC/USDT", "ETH/USDT">>,
                          <<"ETH/USDT", "BTC/USDT">>},
        btc_a \in WideTickers, btc_b \in WideTickers, eth \in EthDicts}

\* the inputs of the refresh cycles: one symbol on two exchanges, the pair
\* returned, cut by the gap, below the floor, or skipped by the checks
CycleInputs ==
    {[exchanges |-> <<"binance", "okx">>,
      symbol_order |-> <<"BTC/USDT">>,
      tickers |-> [binance |-> [symbol \in {"BTC/USDT"} |-> btc_a],
                   okx |-> [symbol \in {"BTC/USDT"} |-> btc_b]]] :
        btc_a \in {Ticker(TRUE, Some(100), Some(10000), Some(2000000)),
                   Ticker(TRUE, Some(-4), Some(10000), Some(2000000))},
        btc_b \in {Ticker(TRUE, Some(-4), Some(10000), Some(2000000)),
                   Ticker(TRUE, Some(-4), Some(10002), Some(2000000)),
                   Ticker(TRUE, Some(-4), Some(10030), Some(2000000)),
                   Ticker(FALSE, Some(-4), Some(10000), Some(2000000))}}

\* the application reruns its script: the lists of the previous cycle are
\* discarded
Rerun ==
    /\ ret.op \in {"find_opportunities", "analyze_all"}
    /\ ret' = NoRet
    /\ UNCHANGED <<prevFundings, cycleLog, now, gapHistory, metricHistory, gapLog, nOps>>

\* a call of find_opportunities, once per run of the script
FindOpportunitiesOf(inputs, min_volumes, min_edges, limit) ==
    /\ ret.op = "none"
    /\ nOps < limit
    /\ \E inp \in inputs, min_volume \in min_volumes, min_edge \in min_edges :
          LET r == find_opportunities(gapHistory, gapLog, now, inp,
                                      min_volume, min_edge)
          IN  /\ gapHistory' = r.h
              /\ gapLog' = r.log
              /\ ret' = [op |-> "find_opportunities", inp |-> inp,
                         min_volume |-> min_volume, min_edge |-> min_edge,
                         res |-> r.res, evals |-> r.evals]
    /\ nOps' = nOps + 1
    /\ UNCHANGED <<prevFundings, cycleLog, now, metricHistory>>

FindOpportunitiesWide ==
    FindOpportunitiesOf(WideInputs, {0, 1000000}, {None, Some(-PCT)},
                        MaxWideCalls)

FindOpportunitiesCycle ==
    FindOpportunitiesOf(CycleInputs, {1000000}, {None}, MaxOps)

NextArb == Rerun \/ FindOpportunitiesWide

SpecArb == Init /\ [][NextArb]_vars

NextCycles == Tick \/ Rerun \/ FindOpportunitiesCycle

SpecCycles == Init /\ [][NextCycles]_vars

---------------------------------------------------------------------------
(* Claims about GapTracker, under SpecGap *)

LastN(s, n) == SubSeq(s, Len(s) - Min(Len(s), n) + 1, Len(s))

\* the number of add calls for the pair whose timestamp is inside the window
InWindowCount(symbol, ex_a, ex_b) ==
    LET log == LogOf(symbol, ex_a, ex_b)
    IN  Cardinality({i \in 1..Len(log) : log[i].ts >= now - WindowMinutes})

LogGaps(symbol, ex_a, ex_b) ==
    LET log == LogOf(symbol, ex_a, ex_b)
    IN  [i \in 1..Len(log) |-> log[i].gap]

\* r is the population standard deviation of xs, floored to the unit:
\* r^2 <= (n * sum(x^2) - sum(x)^2) / n^2 < (r + 1)^2
IsPopulationStd(r, xs) ==
    LET n == Len(xs)
        s == SeqSum(xs)
        sq == SeqSum([i \in 1..n |-> xs[i] * xs[i]])
        d == n * sq - s * s
    IN  /\ r >= 0
        /\ r * r * n * n <= d
        /\ d < (r + 1) * (r + 1) * n * n

\* C1: get_stability returns the sentinel whenever the key was never
\* recorded or fewer than 3 of the entries recorded for it have a timestamp
\* inside the lookback window, after any sequence of add calls.
C1_SentinelBelowThreePoints ==
    ret.op = "get_stability" =>
        (InWindowCount(ret.symbol, ret.ex_a, ret.ex_b) < 3 => ret.val = Sentinel)

\* C1 witness: a key with three recorded entries, only two of them inside
\* the window, is read and gives the sentinel.
C1_Witness ==
    /\ ret.op = "get_stability"
    /\ Len(LogOf(ret.symbol, ret.ex_a, ret.ex_b)) >= 3
    /\ InWindowCount(ret.symbol, ret.ex_a, ret.ex_b) = 2
    /\ ret.val = Sentinel

\* C2: after N add calls (3 <= N <= capacity) under one key, all inside the
\* lookback window, get_stability equals the population standard deviation
\* (divide by N) of exactly those N values.
C2_RoundTripPopulationStd ==
    ret.op = "get_stability" =>
        LET n == Len(LogOf(ret.symbol, ret.ex_a, ret.ex_b))
        IN  (/\ 3 <= n
             /\ n <= MaxPoints
             /\ InWindowCount(ret.symbol, ret.ex_a, ret.ex_b) = n)
            => IsPopulationStd(ret.val, LogGaps(ret.symbol, ret.ex_a, ret.ex_b))

\* C2 witness: three values that are not all equal were recorded and read
\* back inside the window, giving a positive deviation.
C2_Witness ==
    /\ ret.op = "get_stability"
    /\ Len(LogOf(ret.symbol, ret.ex_a, ret.ex_b)) = 3
    /\ InWindowCount(ret.symbol, ret.ex_a, ret.ex_b) = 3
    /\ ret.val > 0
    /\ ret.val < Sentinel

\* C3: add(symbol, A, B, g) and add(symbol, B, A, g) append to the same
\* series: the series held for (symbol, A, B) is the tail of all the add
\* calls made for the unordered pair, in either order, and
\* get_stability(symbol, A, B) = get_stability(symbol, B, A).
C3_KeySymmetric ==
    \A symbol \in Symbols, ex_a \in ReadExchanges, ex_b \in ReadExchanges :
        ex_a # ex_b =>
            /\ get_stability(gapHistory, now, symbol, ex_a, ex_b)
                 = get_stability(gapHistory, now, symbol, ex_b, ex_a)
            /\ LogOf(symbol, ex_a, ex_b) # <<>> =>
                 /\ _key(symbol, ex_a, ex_b) \in DOMAIN gapHistory
                 /\ gapHistory[_key(symbol, ex_a, ex_b)]
                      = LastN(LogOf(symbol, ex_a, ex_b), MaxPoints)

\* C3 witness: an add with the exchanges in descending order has landed in
\* the series of the ascending key, which now gives a computed deviation.
C3_Witness ==
    /\ ret.op = "add"
    /\ StrGT(ret.ex_a, ret.ex_b)
    /\ <<ret.symbol, ret.ex_b, ret.ex_a>> \in DOMAIN gapHistory
    /\ Len(gapHistory[<<ret.symbol, ret.ex_b, ret.ex_a>>]) >= 3
    /\ get_stability(gapHistory, now, ret.symbol, ret.ex_a, ret.ex_b) # Sentinel

---------------------------------------------------------------------------
(* Claims about the windows of both trackers, under SpecTrackers *)

\* new is old itself, old with one entry appended while below capacity, or
\* a full old without its oldest entry and with one entry appended
DequeStep(old, new) ==
    \/ new = old
    \/ /\ Len(old) < MaxPoints
       /\ Len(new) = Len(old) + 1
       /\ SubSeq(new, 1, Len(old)) = old
    \/ /\ Len(old) = MaxPoints
       /\ Len(new) = MaxPoints
       /\ SubSeq(new, 1, MaxPoints - 1) = SubSeq(old, 2, MaxPoints)

WindowsStep(h, h2) ==
    /\ DOMAIN h \subseteq DOMAIN h2
    /\ \A k \in DOMAIN h2 :
          /\ Len(h2[k]) >= 1
          /\ Len(h2[k]) <= MaxPoints
          /\ DequeStep(IF k \in DOMAIN h THEN h[k] ELSE <<>>, h2[k])
    /\ Cardinality({k \in DOMAIN h2 : k \notin DOMAIN h \/ h2[k] # h[k]}) <= 1

\* C4: every per-key window of GapTracker and of HistoryTracker holds at
\* most max_points entries in insertion order; an add on a full window
\* removes exactly the oldest entry and keeps all the others, and an add on
\* one key changes the window of no other key.
C4_WindowsBoundedOldestEvicted ==
    [][/\ WindowsStep(gapHistory, gapHistory')
       /\ WindowsStep(metricHistory, metricHistory')]_vars

\* C4 witness: more adds than the capacity were made on one key, and its
\* window holds the newest max_points of them.
C4_Witness ==
    \E p \in DOMAIN gapLog :
        \E ex_a \in p[2], ex_b \in p[2] :
            /\ ex_a # ex_b
            /\ Len(gapLog[p]) > MaxPoints
            /\ gapHistory[_key(p[1], ex_a, ex_b)] = LastN(gapLog[p], MaxPoints)
            /\ gapHistory[_key(p[1], ex_a, ex_b)][1] # gapLog[p][1]

---------------------------------------------------------------------------
(* Claims about HistoryTracker.get_delta, under SpecHist *)

\* the snapshots held for the key of the last get_delta call
RetWindow ==
    IF <<Lower(ret.exchange), ret.symbol>> \in DOMAIN metricHistory
    THEN metricHistory[<<Lower(ret.exchange), ret.symbol>>] ELSE <<>>

SetMin(S) == CHOOSE x \in S : \A y \in S : x <= y

\* the snapshots of the window that are at least the lookback old
OldEnough(w) == {i \in 1..Len(w) : w[i].ts <= now - LookbackMinutes}

\* the field of the most recent snapshot
CurrentOf(w, field) == DictGet(w[Len(w)].data, field)

\* the reference value: the field of the oldest snapshot that is old enough
\* and, when no snapshot is, of the oldest snapshot of the window (one of
\* its five oldest); a snapshot that does not carry the field is passed over
ReferenceOf(w, field) ==
    LET old == {i \in OldEnough(w) : field \in DOMAIN w[i].data}
        five == {i \in 1..Min(FallbackPoints, Len(w)) : field \in DOMAIN w[i].data}
        from == IF old # {} THEN old ELSE five
    IN  IF from = {} THEN None ELSE w[SetMin(from)].data[field]

\* v is (current - reference) / |reference| * 100 rounded to the unit
IsDeltaPct(v, current, reference) ==
    2 * Abs(v * Abs(reference) - (current - reference) * 100 * PCT)
        <= Abs(reference)

\* C5: get_delta returns None, and never divides by zero, when the key has
\* fewer than 2 snapshots, when the field is absent or None in the most
\* recent snapshot or in the reference snapshot, or when the reference
\* value is exactly zero; in every other case it returns a number.
C5_DeltaUndefinedCases ==
    ret.op = "get_delta" =>
        /\ ret.res.exc = ""
        /\ IsNone(ret.res.val) <=>
              \/ Len(RetWindow) < 2
              \/ IsNone(CurrentOf(RetWindow, ret.field))
              \/ IsNone(ReferenceOf(RetWindow, ret.field))
              \/ Val(ReferenceOf(RetWindow, ret.field)) = 0

\* C5 witness: two or more snapshots, a current value, a reference value of
\* exactly zero, and None returned.
C5_Witness ==
    /\ ret.op = "get_delta"
    /\ Len(RetWindow) >= 2
    /\ ~IsNone(CurrentOf(RetWindow, ret.field))
    /\ ReferenceOf(RetWindow, ret.field) = Some(0)
    /\ ret.res = Returned(None)

\* C6: a returned delta is (current - reference) / |reference| * 100, with
\* current the field of the most recent snapshot and reference the field of
\* the oldest snapshot whose timestamp is <= now - lookback; when no
\* snapshot is that old the reference comes from among the five oldest
\* snapshots, so that a delta is still returned.
C6_DeltaFormulaAndFallback ==
    (ret.op = "get_delta" /\ Len(RetWindow) >= 2) =>
        LET w == RetWindow
            cur == CurrentOf(w, ret.field)
            old == OldEnough(w)
        IN  /\ (old # {} /\ ~IsNone(ret.res.val)) =>
                  LET ref == DictGet(w[SetMin(old)].data, ret.field)
                  IN  /\ ~IsNone(ref)
                      /\ IsDeltaPct(Val(ret.res.val), Val(cur), Val(ref))
            /\ (old = {} /\ ~IsNone(ret.res.val)) =>
                  \E i \in 1..Min(FallbackPoints, Len(w)) :
                      LET ref == DictGet(w[i].data, ret.field)
                      IN  /\ ~IsNone(ref)
                          /\ IsDeltaPct(Val(ret.res.val), Val(cur), Val(ref))
            /\ (/\ old = {}
                /\ ~IsNone(cur)
                /\ ~IsNone(DictGet(w[1].data, ret.field))
                /\ Val(DictGet(w[1].data, ret.field)) # 0)
               => ~IsNone(ret.res.val)

\* C6 witness: exactly two snapshots spaced less than the lookback apart,
\* none old enough, and a non-zero delta returned against the first.
C6_Witness ==
    /\ ret.op = "get_delta"
    /\ Len(RetWindow) = 2
    /\ RetWindow[1].ts < RetWindow[2].ts
    /\ OldEnough(RetWindow) = {}
    /\ ~IsNone(ret.res.val)
    /\ Val(ret.res.val) # 0

---------------------------------------------------------------------------
(* Claims about find_opportunities, under SpecArb and SpecCycles *)

SeqToSet(s) == {s[i] : i \in 1..Len(s)}

\* the last call was find_opportunities and it returned its list
ArbReturned == ret.op = "find_opportunities" /\ ret.res.exc = ""

\* the 24h volume of a ticker, a missing one counted as 0
VolumeOrZero(ticker) ==
    IF IsNone(ticker.volume_24h) THEN 0 ELSE Val(ticker.volume_24h)

\* the symbol is listed on both exchanges of the input
Listed(inp, symbol, ex_a, ex_b) ==
    /\ ex_a \in DOMAIN inp.tickers /\ ex_b \in DOMAIN inp.tickers
    /\ symbol \in DOMAIN inp.tickers[ex_a]
    /\ symbol \in DOMAIN inp.tickers[ex_b]

\* step 2 of the specification: neither ticker is flagged, lacks its
\* funding rate or its mark price, and both volumes reach the floor
Step2Ok(inp, symbol, ex_a, ex_b, min_volume) ==
    \A ex \in {ex_a, ex_b} :
        LET ticker == inp.tickers[ex][symbol]
        IN  /\ ticker.data_ok = TRUE
            /\ ticker.funding_rate # None
            /\ ticker.mark_price # None
            /\ VolumeOrZero(ticker) >= min_volume

InputExchanges(inp) == SeqToSet(inp.exchanges)

\* C7: no opportunity is returned for a (symbol, exchange pair) where either
\* ticker has data_ok false, no funding rate, no mark price, or where the
\* smaller 24h volume (a missing one counted as 0) is below min_volume; the
\* call still returns, and every other listed pair is evaluated.
C7_RejectedPairsSkipped ==
    ret.op = "find_opportunities" =>
        /\ ret.res.exc = ""
        /\ \A opp \in SeqToSet(ret.res.val) :
              /\ Listed(ret.inp, opp.symbol, opp.exchange_a, opp.exchange_b)
              /\ Step2Ok(ret.inp, opp.symbol, opp.exchange_a, opp.exchange_b,
                         ret.min_volume)
        /\ \A symbol \in Symbols, ex_a \in InputExchanges(ret.inp),
              ex_b \in InputExchanges(ret.inp) :
              (ex_a # ex_b /\ Listed(ret.inp, symbol, ex_a, ex_b)) =>
                  (Step2Ok(ret.inp, symbol, ex_a, ex_b, ret.min_volume)
                   <=> \E e \in SeqToSet(ret.evals) :
                           /\ e.symbol = symbol
                           /\ {e.ex_a, e.ex_b} = {ex_a, ex_b})

\* C7 witness: the BTC pair fails step 2 and is not returned, while the ETH
\* pair of the same call is evaluated and returned.
C7_Witness ==
    /\ ArbReturned
    /\ Listed(ret.inp, "BTC/USDT", "binance", "okx")
    /\ ~Step2Ok(ret.inp, "BTC/USDT", "binance", "okx", ret.min_volume)
    /\ Len(ret.res.val) = 1
    /\ ret.res.val[1].symbol = "ETH/USDT"

\* g is (price_b - price_a) / ((price_a + price_b) / 2) * 100 rounded to
\* the unit, for a positive midpoint
IsGapPct(g, price_a, price_b) ==
    2 * Abs(g * (price_a + price_b) - (price_b - price_a) * 2 * 100 * PCT)
        <= price_a + price_b

\* C8: in every returned opportunity exchange_a is the SHORT leg and has
\* funding_a >= funding_b, gap_pct = (price_b - price_a) / midpoint * 100,
\* and best_leg names exchange_a as SHORT and exchange_b as LONG.
C8_ShortLegHasHigherFunding ==
    ArbReturned =>
        \A opp \in SeqToSet(ret.res.val) :
            LET ticker_a == ret.inp.tickers[opp.exchange_a][opp.symbol]
                ticker_b == ret.inp.tickers[opp.exchange_b][opp.symbol]
            IN  /\ opp.exchange_a # opp.exchange_b
                /\ opp.funding_a = Val(ticker_a.funding_rate)
                /\ opp.funding_b = Val(ticker_b.funding_rate)
                /\ opp.funding_a >= opp.funding_b
                /\ opp.price_a = Val(ticker_a.mark_price)
                /\ opp.price_b = Val(ticker_b.mark_price)
                /\ IsGapPct(opp.gap_pct, opp.price_a, opp.price_b)
                /\ opp.best_leg = <<Capitalize(opp.exchange_a), "SHORT",
                                    Capitalize(opp.exchange_b), "LONG">>

\* C8 witness: a returned opportunity whose SHORT leg is the exchange that
\* comes second in the input, with a higher funding and a non-zero gap.
C8_Witness ==
    /\ ArbReturned
    /\ \E opp \in SeqToSet(ret.res.val) :
          /\ opp.exchange_a = ret.inp.exchanges[2]
          /\ opp.funding_a > opp.funding_b
          /\ opp.gap_pct # 0

Sign(x) == IF x > 0 THEN 1 ELSE IF x < 0 THEN -1 ELSE 0

\* the same tickers with the exchanges in the opposite order
ReversedInput(inp) ==
    [inp EXCEPT !.exchanges =
        [i \in 1..Len(inp.exchanges) |->
            inp.exchanges[Len(inp.exchanges) + 1 - i]]]

\* C9: with equal funding rates the SHORT leg, the sign of gap_pct and
\* best_leg do not depend on the order of the exchanges in the input map:
\* the call on the same tickers with the exchanges in the opposite order
\* gives, for the same symbol and pair, the same legs.
C9_TieIndependentOfInputOrder ==
    ArbReturned =>
        LET other == find_opportunities(gapHistory, gapLog, now,
                                        ReversedInput(ret.inp),
                                        ret.min_volume, ret.min_edge)
        IN  \A opp \in SeqToSet(ret.res.val) :
                \A opp2 \in SeqToSet(other.res.val) :
                    (/\ opp.funding_a = opp.funding_b
                     /\ opp2.symbol = opp.symbol
                     /\ {opp2.exchange_a, opp2.exchange_b}
                          = {opp.exchange_a, opp.exchange_b})
                    => /\ opp2.exchange_a = opp.exchange_a
                       /\ Sign(opp2.gap_pct) = Sign(opp.gap_pct)
                       /\ opp2.best_leg = opp.best_leg

LogIn(log, symbol, ex_a, ex_b) ==
    IF Pair(symbol, ex_a, ex_b) \in DOMAIN log
    THEN log[Pair(symbol, ex_a, ex_b)] ELSE <<>>

\* the gaps of the newest max_points add calls of a log that are inside the
\* lookback window at time t
VisibleGaps(log, t) ==
    LET held == LastN(log, MaxPoints)
        kept == SelectSeq(held, LAMBDA e : e.ts >= t - WindowMinutes)
    IN  [i \in 1..Len(kept) |-> kept[i].gap]

\* C10: in each call every (symbol, exchange pair) that passes step 2 gets
\* exactly one new entry in its series, whether or not the opportunity is
\* then rejected by the gap cutoff or the net-edge floor, and a pair that
\* fails step 2 gets none; the stability read for a pair is computed from
\* the gaps of all the evaluated cycles so far (up to capacity and
\* lookback), returned or not.
C10_EveryEvaluatedPairRecorded ==
    [][(ret'.op = "find_opportunities" /\ ret'.res.exc = "") =>
        /\ \A symbol \in Symbols, ex_a \in InputExchanges(ret'.inp),
              ex_b \in InputExchanges(ret'.inp) :
              ex_a # ex_b =>
                  LET before == LogIn(gapLog, symbol, ex_a, ex_b)
                      after == LogIn(gapLog', symbol, ex_a, ex_b)
                      passes == /\ Listed(ret'.inp, symbol, ex_a, ex_b)
                                /\ Step2Ok(ret'.inp, symbol, ex_a, ex_b,
                                           ret'.min_volume)
                  IN  /\ Len(after) = Len(before) + (IF passes THEN 1 ELSE 0)
                      /\ SubSeq(after, 1, Len(before)) = before
        /\ \A e \in SeqToSet(ret'.evals) :
              LET seen == VisibleGaps(LogIn(gapLog', e.symbol, e.ex_a, e.ex_b),
                                      now')
              IN  /\ seen # <<>>
                  /\ seen[Len(seen)] = e.gap_pct
                  /\ IF Len(seen) < 3 THEN e.gap_stability = Sentinel
                     ELSE IsPopulationStd(e.gap_stability, seen)
      ]_vars

\* C10 witness: a cycle that returns nothing reads a computed, non-zero
\* stability from three entries, the two earlier ones recorded in cycles
\* whose opportunity was cut by the gap cutoff.
C10_Witness ==
    /\ ArbReturned
    /\ ret.res.val = <<>>
    /\ \E e \in SeqToSet(ret.evals) :
          LET log == LogIn(gapLog, e.symbol, e.ex_a, e.ex_b)
          IN  /\ Len(log) = 3
              /\ Abs(log[1].gap) > gap_cutoff_threshold
              /\ Abs(log[2].gap) > gap_cutoff_threshold
              /\ e.gap_stability # Sentinel
              /\ e.gap_stability > 0

---------------------------------------------------------------------------
(* Calls of find_opportunities that vary fees, spreads, gaps and floors *)

MaxEdgeCalls == 3

\* a ticker with a bid and an ask
WithBook(ticker, bid, ask) ==
    [ticker EXCEPT !.bid_price = bid, !.ask_price = ask]

\* the ticker of the exchange that comes first: the higher funding, with or
\* without a 2 bps book
EdgeFirstTickers ==
    {WithBook(Ticker(TRUE, funding, Some(10000), Some(2000000)), book[1], book[2]) :
        funding \in {Some(10), Some(60), Some(100)},
        book \in {<<None, None>>, <<Some(9999), Some(10001)>>}}

\* the ticker of the exchange that comes second: marks that put the gap
\* below the warning threshold, at it, above it, at the cutoff and above
\* the cutoff
EdgeSecondTickers ==
    {Ticker(TRUE, funding, mark, Some(2000000)) :
        funding \in {Some(-4), Some(0)},
        mark \in {Some(10002), Some(10005), Some(10007), Some(10010),
                  Some(10011)}}

\* one symbol on two exchanges: both in the fee table with the default fee,
\* or one with its own fee and one that the table does not list
EdgeInputs ==
    {[exchanges |-> exchanges,
      symbol_order |-> <<"BTC/USDT">>,
      tickers |-> [ex \in {exchanges[1], exchanges[2]} |->
                      [symbol \in {"BTC/USDT"} |->
                          IF ex = exchanges[1] THEN first ELSE second]]] :
        exchanges \in {<<"binance", "okx">>, <<"zeta", "bybit">>},
        first \in EdgeFirstTickers, second \in EdgeSecondTickers}

FindOpportunitiesEdge ==
    FindOpportunitiesOf(EdgeInputs, {1000000}, {None, Some(-54)}, MaxEdgeCalls)

NextEdge == Rerun \/ FindOpportunitiesEdge

SpecEdge == Init /\ [][NextEdge]_vars

---------------------------------------------------------------------------
(* Claims about the net edge and the filters, under SpecEdge *)

\* the taker fees the specification gives, in units, and its default
TakerFeeTable ==
    [binance |-> 10, bybit |-> 11, okx |-> 10, gate |-> 10, bitget |-> 12,
     mexc |-> 12, hyperliquid |-> 10, lighter |-> 10, variational |-> 10]

TakerFeeOrDefault(exchange) ==
    IF exchange \in DOMAIN TakerFeeTable THEN TakerFeeTable[exchange]
    ELSE PCT \div 20

\* the funding rate of one leg of an evaluated pair
FundingOf(inp, exchange, symbol) == Val(inp.tickers[exchange][symbol].funding_rate)

\* twice the net edge without the stability term:
\* |short.funding| - (the long funding paid when negative) - fee_cost
\* - spread_cost / 100
TwiceBaseEdge(inp, e) ==
    LET short_funding == FundingOf(inp, e.short_ex, e.symbol)
        long_funding == FundingOf(inp, e.long_ex, e.symbol)
    IN  2 * (Abs(short_funding)
             - (IF long_funding < 0 THEN -long_funding ELSE 0)
             - e.fee_cost
             - (e.spread_cost * PCT) \div 100)

\* C11: for every evaluated pair the net edge is |short.funding| - (the
\* long funding paid when it is negative, else 0) - fee_cost
\* - spread_cost/100 - gap_stability * 0.5, where fee_cost is (short taker
\* fee + long taker fee) * 2 from the fee table with 0.05 for an exchange
\* not in the table, and the last term is left out when the stability is
\* the sentinel.
C11_NetEdgeFormula ==
    ArbReturned =>
        \A e \in SeqToSet(ret.evals) :
            /\ e.fee_cost = (TakerFeeOrDefault(e.short_ex)
                             + TakerFeeOrDefault(e.long_ex)) * 2
            /\ IF e.gap_stability = Sentinel
               THEN 2 * e.net_edge = TwiceBaseEdge(ret.inp, e)
               ELSE Abs(2 * e.net_edge
                        - (TwiceBaseEdge(ret.inp, e) - e.gap_stability)) <= 1

\* C11 witness: a pair with a fee of its own, an exchange outside the fee
\* table, a negative long funding, a spread read from the book and a
\* computed, non-zero stability.
C11_Witness ==
    /\ ArbReturned
    /\ \E e \in SeqToSet(ret.evals) :
          /\ {e.short_ex, e.long_ex} = {"zeta", "bybit"}
          /\ FundingOf(ret.inp, e.long_ex, e.symbol) < 0
          /\ e.spread_cost # 2 * default_spread_bps
          /\ e.gap_stability # Sentinel
          /\ e.gap_stability > 0
          /\ e.fee_cost = 42

---------------------------------------------------------------------------
(* Direct calls of calculate_net_edge *)

NetEdgeFundings == {0, 4, 10, 100}
NetEdgeFees == {0, 40, 42, 44}
NetEdgeSpreads == {0, 7, 10, 12}
NetEdgeStabilities == {0, 6, 7, Sentinel}

CalculateNetEdge ==
    /\ \E funding_receive \in NetEdgeFundings, funding_pay \in NetEdgeFundings,
          fee_cost \in NetEdgeFees, spread_cost_bps \in NetEdgeSpreads,
          gap_stability \in NetEdgeStabilities :
          ret' = [op |-> "calculate_net_edge",
                  funding_receive |-> funding_receive,
                  funding_pay |-> funding_pay,
                  fee_cost |-> fee_cost,
                  spread_cost_bps |-> spread_cost_bps,
                  gap_stability |-> gap_stability,
                  val |-> calculate_net_edge(funding_receive, funding_pay,
                                             fee_cost, spread_cost_bps,
                                             gap_stability)]
    /\ UNCHANGED <<prevFundings, cycleLog, now, gapHistory, metricHistory, gapLog, nOps>>

NextNetEdge == CalculateNetEdge

SpecNetEdge == Init /\ [][NextNetEdge]_vars

\* C12: calculate_net_edge is monotonically decreasing in fee_cost and in
\* spread_cost_bps: with the other four arguments fixed, a higher fee_cost
\* (or spread_cost_bps) gives a strictly lower net edge.
C12_NetEdgeDecreasing ==
    ret.op = "calculate_net_edge" =>
        /\ \A fee_cost \in NetEdgeFees :
              fee_cost > ret.fee_cost =>
                  calculate_net_edge(ret.funding_receive, ret.funding_pay,
                                     fee_cost, ret.spread_cost_bps,
                                     ret.gap_stability) < ret.val
        /\ \A spread_cost_bps \in NetEdgeSpreads :
              spread_cost_bps > ret.spread_cost_bps =>
                  calculate_net_edge(ret.funding_receive, ret.funding_pay,
                                     ret.fee_cost, spread_cost_bps,
                                     ret.gap_stability) < ret.val

\* C12 witness: a call with a computed stability for which both a higher
\* fee and a higher spread are among the inputs.
C12_Witness ==
    /\ ret.op = "calculate_net_edge"
    /\ ret.gap_stability = 7
    /\ ret.funding_pay > 0
    /\ \E fee_cost \in NetEdgeFees : fee_cost > ret.fee_cost
    /\ \E spread_cost_bps \in NetEdgeSpreads : spread_cost_bps > ret.spread_cost_bps

\* the returned opportunities of the evaluated pair e
OppsOf(e) ==
    {opp \in SeqToSet(ret.res.val) :
        /\ opp.symbol = e.symbol
        /\ {opp.exchange_a, opp.exchange_b} = {e.ex_a, e.ex_b}}

\* the floor in force in the last call
FloorInForce == IF ret.min_edge = None THEN 0 ELSE Val(ret.min_edge)

\* C13: an evaluated pair with |gap_pct| > cutoff is rejected; one with
\* |gap_pct| equal to the cutoff is retained (it is returned when its net
\* edge reaches the floor); a retained opportunity carries a warning
\* exactly when |gap_pct| > warning threshold.
C13_GapClassification ==
    ArbReturned =>
        \A e \in SeqToSet(ret.evals) :
            /\ Abs(e.gap_pct) > gap_cutoff_threshold => OppsOf(e) = {}
            /\ (Abs(e.gap_pct) <= gap_cutoff_threshold
                /\ e.net_edge >= FloorInForce) => OppsOf(e) # {}
            /\ \A opp \in OppsOf(e) :
                  /\ opp.gap_pct = e.gap_pct
                  /\ Abs(opp.gap_pct) > gap_warning_threshold
                       <=> opp.warning # None
                  /\ opp.warning # None => Val(opp.warning).gap = opp.gap_pct

\* C13 witness: a pair whose |gap_pct| is exactly the cutoff is returned,
\* with a warning.
C13_Witness ==
    /\ ArbReturned
    /\ \E opp \in SeqToSet(ret.res.val) :
          /\ Abs(opp.gap_pct) = gap_cutoff_threshold
          /\ opp.warning # None

\* C14: every returned opportunity has net_edge >= the floor in force (the
\* min_edge argument, or the configured floor 0 when it is not given), and
\* an evaluated pair that is not cut by the gap and whose net_edge equals
\* the floor is returned.
C14_NetEdgeFloor ==
    ArbReturned =>
        /\ \A opp \in SeqToSet(ret.res.val) : opp.net_edge >= FloorInForce
        /\ \A e \in SeqToSet(ret.evals) :
              (Abs(e.gap_pct) <= gap_cutoff_threshold
               /\ e.net_edge = FloorInForce)
              => \E opp \in OppsOf(e) : opp.net_edge = FloorInForce

\* C14 witness: a call without a min_edge argument returns an opportunity
\* whose net edge is exactly the default floor.
C14_Witness ==
    /\ ArbReturned
    /\ ret.min_edge = None
    /\ \E opp \in SeqToSet(ret.res.val) : opp.net_edge = 0

---------------------------------------------------------------------------
(* Claims about the returned list, under SpecArb *)

\* the place of an opportunity in the order of production: the index of its
\* pair among the evaluated pairs, which the loops append in visiting order
ProducedAt(opp) ==
    CHOOSE k \in 1..Len(ret.evals) :
        /\ ret.evals[k].symbol = opp.symbol
        /\ ret.evals[k].short_ex = opp.exchange_a
        /\ ret.evals[k].long_ex = opp.exchange_b

\* C15: the returned list is ordered by net_edge non-increasing, holds
\* exactly the opportunities that were produced, and opportunities with
\* equal net_edge appear in the order in which the pair/symbol iteration
\* produced them.
C15_SortedStable ==
    ArbReturned =>
        LET res == ret.res.val
        IN  /\ Len(res) = Cardinality({k \in 1..Len(ret.evals) : ret.evals[k].kept})
            /\ \A i \in 1..Len(res) :
                  /\ ret.evals[ProducedAt(res[i])].kept
                  /\ ret.evals[ProducedAt(res[i])].net_edge = res[i].net_edge
            /\ \A i \in 1..Len(res), j \in 1..Len(res) :
                  i < j =>
                      /\ res[i].net_edge >= res[j].net_edge
                      /\ res[i].net_edge = res[j].net_edge
                           => ProducedAt(res[i]) < ProducedAt(res[j])

\* C15 witness: two opportunities with the same net edge are returned, the
\* one of the symbol iterated first in front although it is not the first
\* of the symbols by name.
C15_Witness ==
    /\ ArbReturned
    /\ Len(ret.res.val) = 2
    /\ ret.res.val[1].net_edge = ret.res.val[2].net_edge
    /\ ret.res.val[1].symbol = "ETH/USDT"
    /\ ret.inp.symbol_order[1] = "ETH/USDT"

---------------------------------------------------------------------------
(* The end-to-end scenario, under SpecEdge *)

\* exchange A funding 0.05 and mark 100.00, exchange B funding -0.02 and
\* mark 100.02, both volumes 2,000,000, no bid/ask, both taker fees 0.05
ScenarioInput ==
    [exchanges |-> <<"binance", "okx">>,
     symbol_order |-> <<"BTC/USDT">>,
     tickers |-> [ex \in {"binance", "okx"} |->
                     [symbol \in {"BTC/USDT"} |->
                         IF ex = "binance"
                         THEN Ticker(TRUE, Some(10), Some(10000), Some(2000000))
                         ELSE Ticker(TRUE, Some(-4), Some(10002), Some(2000000))]]]

\* the scenario was the first call on the engine, with the default floor
ScenarioRan ==
    /\ ArbReturned
    /\ nOps = 1
    /\ ret.inp = ScenarioInput
    /\ ret.min_edge = None

\* C16: in the scenario A is the SHORT leg and B the LONG leg, the gap is
\* 0.02 and below the warning threshold, the spread cost is 10 bps, the fee
\* cost 0.20, the stability is the sentinel so that no penalty is applied,
\* the net edge is -0.27 and the returned list is empty.
C16_EndToEndScenario ==
    ScenarioRan =>
        /\ Len(ret.evals) = 1
        /\ ret.evals[1].short_ex = "binance"
        /\ ret.evals[1].long_ex = "okx"
        /\ ret.evals[1].gap_pct = (2 * PCT) \div 100
        /\ ret.evals[1].gap_pct <= (5 * PCT) \div 100
        /\ ret.evals[1].spread_cost = 10
        /\ ret.evals[1].fee_cost = (20 * PCT) \div 100
        /\ ret.evals[1].gap_stability = Sentinel
        /\ ret.evals[1].net_edge = -((27 * PCT) \div 100)
        /\ ret.res.val = <<>>

\* C16 witness: the scenario has run on a fresh engine and its one pair was
\* evaluated and recorded.
C16_Witness ==
    /\ ScenarioRan
    /\ Len(ret.evals) = 1
    /\ Len(LogIn(gapLog, "BTC/USDT", "binance", "okx")) = 1
    /\ ret.evals[1].net_edge < 0

---------------------------------------------------------------------------
(* Claims about degenerate numbers *)

\* C17: no numeric field of a returned ArbOpportunity is NaN or infinity,
\* in any cycle, the first observations of a pair (stability still the
\* sentinel) included.  gap_pct, spread_cost_bps, net_edge, the prices and
\* the fundings are computed from finite inputs by operations that raise
\* instead of producing NaN or infinity; gap_stability is the field that
\* can hold infinity.
C17_NoInfinityReturned ==
    ArbReturned =>
        \A opp \in SeqToSet(ret.res.val) : ~opp.gap_stability.inf

\* inputs in which every ticker field is a number: the two mark prices of
\* the BTC pair are both 0 or both 100.00, with or without a sound ETH pair
DegenerateInputs ==
    {[exchanges |-> <<"binance", "okx">>,
      symbol_order |-> symbol_order,
      tickers |-> [binance |-> ExchangeDict(
                                  Ticker(TRUE, funding_a, mark, Some(2000000)),
                                  eth, "binance"),
                   okx |-> ExchangeDict(
                                  Ticker(TRUE, funding_b, mark, Some(2000000)),
                                  eth, "okx")]] :
        symbol_order \in {<<"BTC/USDT", "ETH/USDT">>,
                          <<"ETH/USDT", "BTC/USDT">>},
        funding_a \in {Some(10), Some(100)},
        funding_b \in {Some(-4), Some(0)},
        mark \in {Some(0), Some(10000)},
        eth \in {e \in EthDicts : DOMAIN e # {"binance"}}}

FindOpportunitiesDegenerate ==
    FindOpportunitiesOf(DegenerateInputs, {0}, {None}, MaxWideCalls)

NextDegenerate == Rerun \/ FindOpportunitiesDegenerate

SpecDegenerate == Init /\ [][NextDegenerate]_vars

\* C18: find_opportunities never aborts a cycle because of one bad
\* instrument: for every input whose ticker fields are absent or numbers,
\* a pair with a zero midpoint of its mark prices included, the call
\* returns a list, and every other pair that passes step 2 is evaluated.
C18_CycleNeverAborts ==
    ret.op = "find_opportunities" =>
        /\ ret.res.exc = ""
        /\ \A symbol \in Symbols :
              (/\ Listed(ret.inp, symbol, "binance", "okx")
               /\ Step2Ok(ret.inp, symbol, "binance", "okx", ret.min_volume)
               /\ Val(ret.inp.tickers["binance"][symbol].mark_price) # 0)
              => \E e \in SeqToSet(ret.evals) : e.symbol = symbol

---------------------------------------------------------------------------
(* Ranking of a pair without a stability reading, under SpecRank *)

\* the BTC pair seen in every cycle with a changing gap, the ETH pair with
\* the same funding rates, fees and spreads seen in some cycles only
RankInputs ==
    {[exchanges |-> <<"binance", "okx">>,
      symbol_order |-> symbol_order,
      tickers |-> [binance |-> ExchangeDict(
                                  Ticker(TRUE, Some(100), Some(10000), Some(2000000)),
                                  eth, "binance"),
                   okx |-> ExchangeDict(
                                  Ticker(TRUE, Some(-4), mark, Some(2000000)),
                                  eth, "okx")]] :
        symbol_order \in {<<"BTC/USDT", "ETH/USDT">>,
                          <<"ETH/USDT", "BTC/USDT">>},
        mark \in {Some(10002), Some(10010)},
        eth \in EthDicts}

FindOpportunitiesRank ==
    FindOpportunitiesOf(RankInputs, {1000000}, {None}, MaxEdgeCalls)

NextRank == Rerun \/ FindOpportunitiesRank

SpecRank == Init /\ [][NextRank]_vars

\* the two evaluated pairs have the same funding rates, fees and spreads
SameTerms(inp, e1, e2) ==
    /\ FundingOf(inp, e1.short_ex, e1.symbol) = FundingOf(inp, e2.short_ex, e2.symbol)
    /\ FundingOf(inp, e1.long_ex, e1.symbol) = FundingOf(inp, e2.long_ex, e2.symbol)
    /\ e1.fee_cost = e2.fee_cost
    /\ e1.spread_cost = e2.spread_cost

\* the place of an evaluated pair in the returned list, 0 when not returned
RankOf(e) ==
    LET at == {i \in 1..Len(ret.res.val) :
                  /\ ret.res.val[i].symbol = e.symbol
                  /\ ret.res.val[i].exchange_a = e.short_ex
                  /\ ret.res.val[i].exchange_b = e.long_ex}
    IN  IF at = {} THEN 0 ELSE CHOOSE i \in at : TRUE

\* C19: of two evaluated pairs that are identical in funding, fees and
\* spread, the one whose stability is the sentinel does not get a higher
\* net edge than, and does not rank above, the one with a finite stability
\* reading.
C19_SentinelRanksWorse ==
    ArbReturned =>
        \A e1 \in SeqToSet(ret.evals), e2 \in SeqToSet(ret.evals) :
            (/\ e1.gap_stability = Sentinel
             /\ e2.gap_stability # Sentinel
             /\ SameTerms(ret.inp, e1, e2))
            => /\ e1.net_edge <= e2.net_edge
               /\ (RankOf(e1) # 0 /\ RankOf(e2) # 0) => RankOf(e1) > RankOf(e2)

---------------------------------------------------------------------------
(* SqueezeConfig (src/config.py) and SqueezeEngine (src/engine/squeeze.py).
   Scores are counted in units of 1/SCORE point, weights in hundredths. *)

SCORE == 100

weight_oi_shock == 30
weight_price_move == 20
weight_crowding == 20
weight_funding_accel == 15
weight_liquidity_stress == 15
oi_shock_max == 10 * PCT
price_move_max == 5 * PCT
crowding_max == PCT \div 10
funding_accel_max == PCT \div 20
liquidity_stress_max == 50
funding_extreme_threshold == PCT \div 20

\* round(a / b) for b > 0 to the nearest integer, a tie to the even one
RoundHalfEvenDiv(a, b) ==
    LET q == a \div b
        r == a % b
    IN  IF 2 * r < b THEN q
        ELSE IF 2 * r > b THEN q + 1
        ELSE IF q % 2 = 0 THEN q ELSE q + 1

\* round(x, 1) of a score
RoundScore(x) == RoundHalfEvenDiv(x * 10, SCORE) * (SCORE \div 10)

\* round(x, 2) of a percentage
RoundPct(x) == RoundHalfEvenDiv(x * 100, PCT) * (PCT \div 100)

NormalizeScoreUnclamped(value, max_val) ==
    IF IsNone(value) THEN 0
    ELSE RoundDiv(Abs(Val(value)) * 100 * SCORE, max_val)

\* SqueezeEngine._normalize_score for an Optional value
_normalize_score(value, max_val) ==
    IF IsNone(value) THEN 0
    ELSE Min(100 * SCORE, RoundDiv(Abs(Val(value)) * 100 * SCORE, max_val))

DetermineDirectionInclusive(funding, oi_delta) ==
    IF IsNone(funding) THEN "Neutral"
    ELSE IF Abs(Val(funding)) >= funding_extreme_threshold
            /\ ~IsNone(oi_delta) /\ Val(oi_delta) > 0
         THEN IF Val(funding) > 0 THEN "Long squeeze risk"
                                  ELSE "Short squeeze risk"
         ELSE "Neutral"

\* SqueezeEngine._determine_direction (the labels without their arrow)
_determine_direction(funding, oi_delta) ==
    IF IsNone(funding) THEN "Neutral"
    ELSE LET is_funding_extreme == Abs(Val(funding)) > funding_extreme_threshold
             oi_increasing == ~IsNone(oi_delta) /\ Val(oi_delta) > 0
         IN  IF is_funding_extreme /\ oi_increasing
             THEN IF Val(funding) > 0 THEN "Long squeeze risk"
                                      ELSE "Short squeeze risk"
             ELSE "Neutral"

\* a or b of two Optional floats
OrElse(a, b) == IF Truthy(a) THEN a ELSE b

\* the snapshot calculate_score records
SnapshotOf(ticker) ==
    [oi |-> ticker.open_interest,
     price |-> OrElse(ticker.mark_price, ticker.last_price),
     funding |-> ticker.funding_rate]

\* SqueezeEngine.calculate_score: the tracker after the call and the signal
\* (SqueezeSignal.volume_spike, never set, and timestamp are left out)
calculate_score(h, t, ticker, prev_funding) ==
    LET h2 == HistoryTrackerAdd(h, t, ticker.exchange, ticker.symbol,
                                SnapshotOf(ticker))
        oi_res == get_delta(h2, t, ticker.exchange, ticker.symbol, "oi",
                            LookbackMinutes)
        price_res == get_delta(h2, t, ticker.exchange, ticker.symbol, "price",
                               LookbackMinutes)
        spread_res == spread_bps(ticker)
    IN
    IF oi_res.exc # "" THEN [h |-> h2, res |-> Raised(oi_res.exc)]
    ELSE IF price_res.exc # "" THEN [h |-> h2, res |-> Raised(price_res.exc)]
    ELSE IF spread_res.exc # "" THEN [h |-> h2, res |-> Raised(spread_res.exc)]
    ELSE
    LET oi_delta == oi_res.val
        price_delta == price_res.val
        funding_delta ==
            IF ~IsNone(ticker.funding_rate) /\ ~IsNone(prev_funding)
            THEN Some(Val(ticker.funding_rate) - Val(prev_funding))
            ELSE None
        oi_score == _normalize_score(oi_delta, oi_shock_max)
        price_score == _normalize_score(price_delta, price_move_max)
        crowding_score == _normalize_score(ticker.funding_rate, crowding_max)
        funding_accel_score == _normalize_score(funding_delta, funding_accel_max)
        spread_stress == IF Truthy(spread_res.val) THEN spread_res.val
                                                   ELSE Some(0)
        liquidity_score == _normalize_score(spread_stress, liquidity_stress_max)
        weighted == weight_oi_shock * oi_score
                    + weight_price_move * price_score
                    + weight_crowding * crowding_score
                    + weight_funding_accel * funding_accel_score
                    + weight_liquidity_stress * liquidity_score
        direction == _determine_direction(ticker.funding_rate, oi_delta)
        notes_parts ==
            (IF oi_score > 50 * SCORE
             THEN <<<<"OI shock", Val(oi_delta)>>>> ELSE <<>>)
            \o (IF crowding_score > 50 * SCORE
                THEN <<<<"Crowded",
                         IF Truthy(ticker.funding_rate)
                            /\ Val(ticker.funding_rate) > 0
                         THEN "long" ELSE "short">>>>
                ELSE <<>>)
            \o (IF funding_accel_score > 50 * SCORE
                THEN <<<<"Funding accelerating">>>> ELSE <<>>)
        notes == IF notes_parts # <<>> THEN notes_parts ELSE <<<<"Normal">>>>
    IN  [h |-> h2,
         res |-> Returned(
            [symbol |-> ticker.normalized_symbol,
             exchange |-> ticker.exchange,
             squeeze_score |-> RoundHalfEvenDiv(weighted * 10, 100 * SCORE)
                               * (SCORE \div 10),
             direction_bias |-> direction,
             oi_delta_pct |->
                 IF Truthy(oi_delta) THEN Some(RoundPct(Val(oi_delta))) ELSE None,
             price_delta_pct |->
                 IF Truthy(price_delta) THEN Some(RoundPct(Val(price_delta)))
                                        ELSE None,
             funding_level |-> ticker.funding_rate,
             funding_delta |->
                 IF Truthy(funding_delta) THEN funding_delta ELSE None,
             spread_stress |->
                 IF Truthy(spread_stress) THEN spread_stress ELSE None,
             oi_score |-> RoundScore(oi_score),
             price_score |-> RoundScore(price_score),
             crowding_score |-> RoundScore(crowding_score),
             funding_accel_score |-> RoundScore(funding_accel_score),
             liquidity_score |-> RoundScore(liquidity_score),
             notes |-> notes,
             data_ok |-> ticker.data_ok])]

SkipsNothing(ticker) == FALSE

\* analyze_all: if not ticker.data_ok: continue
Skips(ticker) == ~ticker.data_ok

\* f"{ticker.exchange}:{ticker.symbol}"
FundingKey(ticker) == <<ticker.exchange, ticker.symbol>>

\* the loop of analyze_all from the k-th ticker on; st carries the tracker
\* (h), the signals appended so far and the exception raised, if any
RECURSIVE AnalyzeFrom(_, _, _, _, _)
AnalyzeFrom(st, t, tickers, k, prev_fundings) ==
    IF k > Len(tickers) \/ st.exc # "" THEN st
    ELSE IF Skips(tickers[k])
         THEN AnalyzeFrom(st, t, tickers, k + 1, prev_fundings)
         ELSE LET prev_funding == DictGet(prev_fundings, FundingKey(tickers[k]))
                  r == calculate_score(st.h, t, tickers[k], prev_funding)
              IN  AnalyzeFrom(
                      IF r.res.exc # ""
                      THEN [st EXCEPT !.h = r.h, !.exc = r.res.exc]
                      ELSE [st EXCEPT !.h = r.h,
                                      !.signals = Append(@, r.res.val)],
                      t, tickers, k + 1, prev_fundings)

\* signals.sort(key=lambda x: x.squeeze_score, reverse=True), a stable sort
RECURSIVE InsertByScore(_, _)
InsertByScore(sorted, x) ==
    IF sorted = <<>> THEN <<x>>
    ELSE IF Head(sorted).squeeze_score >= x.squeeze_score
         THEN <<Head(sorted)>> \o InsertByScore(Tail(sorted), x)
         ELSE <<x>> \o sorted

RECURSIVE SortByScore(_, _, _)
SortByScore(signals, k, sorted) ==
    IF k > Len(signals) THEN sorted
    ELSE SortByScore(signals, k + 1, InsertByScore(sorted, signals[k]))

\* SqueezeEngine.analyze_all; prev_fundings None is the empty dict
analyze_all(h, t, tickers, prev_fundings) ==
    LET st == AnalyzeFrom([h |-> h, signals |-> <<>>, exc |-> ""],
                          t, tickers, 1, prev_fundings)
    IN  [h |-> st.h,
         res |-> IF st.exc # "" THEN Raised(st.exc)
                 ELSE Returned(SortByScore(st.signals, 1, <<>>))]

---------------------------------------------------------------------------
(* Calls of SqueezeEngine.analyze_all *)

MaxSqueezeCalls == 2

SqueezeTicker(symbol, normalized_symbol, data_ok, open_interest, funding_rate) ==
    [exchange |-> "binance", symbol |-> symbol,
     normalized_symbol |-> normalized_symbol, data_ok |-> data_ok,
     open_interest |-> open_interest, mark_price |-> Some(20),
     last_price |-> None, funding_rate |-> funding_rate,
     bid_price |-> None, ask_price |-> None]

\* the ticker lists of one exchange: two instruments, each healthy or not
SqueezeInputs ==
    {<<SqueezeTicker("BTCUSDT", "BTC/USDT", ok_1, oi_1, Some(16)),
       SqueezeTicker("ETHUSDT", "ETH/USDT", ok_2, oi_2, funding_2)>> :
        ok_1 \in BOOLEAN, oi_1 \in {Some(100), Some(115)},
        ok_2 \in BOOLEAN, oi_2 \in {None, Some(100)},
        funding_2 \in {None, Some(-4)}}

\* the previous-funding maps handed to analyze_all
PrevFundings == {<<>>, [k \in {<<"binance", "BTCUSDT">>} |-> Some(10)]}

\* a call of analyze_all, once per run of the script
AnalyzeAllOf(inputs, prevs, limit) ==
    /\ ret.op = "none"
    /\ nOps < limit
    /\ \E tickers \in inputs, prev_fundings \in prevs :
          LET r == analyze_all(metricHistory, now, tickers, prev_fundings)
          IN  /\ metricHistory' = r.h
              /\ ret' = [op |-> "analyze_all", tickers |-> tickers,
                         prev_fundings |-> prev_fundings, res |-> r.res]
    /\ nOps' = nOps + 1
    /\ UNCHANGED <<prevFundings, cycleLog, now, gapHistory, gapLog>>

AnalyzeAll == AnalyzeAllOf(SqueezeInputs, PrevFundings, MaxSqueezeCalls)

NextSqueeze == Tick \/ Rerun \/ AnalyzeAll

SpecSqueeze == Init /\ [][NextSqueeze]_vars

---------------------------------------------------------------------------
(* Claims about analyze_all, under SpecSqueeze *)

WindowOf(h, ticker) ==
    IF <<Lower(ticker.exchange), ticker.symbol>> \in DOMAIN h
    THEN h[<<Lower(ticker.exchange), ticker.symbol>>] ELSE <<>>

\* the signals of a list that belong to a ticker
SignalsOf(signals, ticker) ==
    {i \in 1..Len(signals) :
        /\ signals[i].symbol = ticker.normalized_symbol
        /\ signals[i].exchange = ticker.exchange}

\* C20: analyze_all skips a ticker whose data_ok is false entirely: the
\* window of its (exchange, symbol) key is unchanged by the call and no
\* signal for it is returned; for every data_ok ticker exactly one snapshot
\* is appended to its window and exactly one signal is returned.
C20_UnhealthyTickersSkipped ==
    [][(ret'.op = "analyze_all") =>
        /\ ret'.res.exc = ""
        /\ \A k \in 1..Len(ret'.tickers) :
              LET ticker == ret'.tickers[k]
                  before == WindowOf(metricHistory, ticker)
                  after == WindowOf(metricHistory', ticker)
                  signals == SignalsOf(ret'.res.val, ticker)
              IN  IF ticker.data_ok
                  THEN /\ after = LastN(Append(before,
                                               [ts |-> now,
                                                data |-> [oi |-> ticker.open_interest,
                                                          price |-> ticker.mark_price,
                                                          funding |-> ticker.funding_rate]]),
                                        MaxPoints)
                       /\ Cardinality(signals) = 1
                  ELSE /\ after = before
                       /\ signals = {}
        /\ DOMAIN metricHistory' =
              DOMAIN metricHistory
              \cup {<<Lower(ret'.tickers[k].exchange), ret'.tickers[k].symbol>> :
                       k \in {i \in 1..Len(ret'.tickers) : ret'.tickers[i].data_ok}}
      ]_vars

\* C20 witness: of two tickers with a recorded history the unhealthy one
\* keeps its window and gets no signal, the healthy one gets the only
\* signal.
C20_Witness ==
    /\ ret.op = "analyze_all"
    /\ ret.res.exc = ""
    /\ ~ret.tickers[1].data_ok
    /\ ret.tickers[2].data_ok
    /\ Len(WindowOf(metricHistory, ret.tickers[1])) = 1
    /\ Len(WindowOf(metricHistory, ret.tickers[2])) = 2
    /\ Len(ret.res.val) = 1
    /\ ret.res.val[1].symbol = "ETH/USDT"

---------------------------------------------------------------------------
(* Calls of analyze_all that vary every input of the score *)

\* one instrument with every field of the score present, absent or extreme
ScoreInputs ==
    {<<[exchange |-> "binance", symbol |-> "BTCUSDT",
        normalized_symbol |-> "BTC/USDT", data_ok |-> TRUE,
        open_interest |-> open_interest, mark_price |-> mark_price,
        last_price |-> None, funding_rate |-> funding_rate,
        bid_price |-> book[1], ask_price |-> book[2]]>> :
        open_interest \in {None, Some(100), Some(115)},
        mark_price \in {Some(20), Some(21)},
        funding_rate \in {None, Some(-16), Some(10), Some(16)},
        book \in {<<None, None>>, <<Some(9999), Some(10001)>>,
                  <<Some(99), Some(101)>>}}

AnalyzeAllScore == AnalyzeAllOf(ScoreInputs, PrevFundings, MaxSqueezeCalls)

NextScore == Rerun \/ AnalyzeAllScore

SpecScore == Init /\ [][NextScore]_vars

---------------------------------------------------------------------------
(* Claims about the scores of a signal, under SpecScore *)

\* the last call was analyze_all and it returned its list
SqueezeReturned == ret.op = "analyze_all" /\ ret.res.exc = ""

\* the ticker of the last call that a signal belongs to
TickerOf(signal) ==
    ret.tickers[CHOOSE k \in 1..Len(ret.tickers) :
                    /\ ret.tickers[k].normalized_symbol = signal.symbol
                    /\ ret.tickers[k].exchange = signal.exchange
                    /\ ret.tickers[k].data_ok]

\* the delta of a field that the score of the ticker was computed from: the
\* tracker holds the snapshot of this cycle as the newest of the key
DeltaOf(ticker, field) ==
    get_delta(metricHistory, now, ticker.exchange, ticker.symbol, field,
              LookbackMinutes).val

\* the previous funding handed in for the ticker, None without one
PrevFundingOf(ticker) ==
    IF <<ticker.exchange, ticker.symbol>> \in DOMAIN ret.prev_fundings
    THEN ret.prev_fundings[<<ticker.exchange, ticker.symbol>>] ELSE None

InScoreRange(x) == 0 <= x /\ x <= 100 * SCORE

\* C21: each of the five sub-scores of an emitted signal lies in [0, 100],
\* an undefined input (None delta, None funding, no spread) gives
\* sub-score 0, and the composite squeeze_score is the weighted sum
\* 0.30/0.20/0.20/0.15/0.15 of the five sub-scores (each reported to one
\* decimal) and lies in [0, 100].
C21_ScoresBounded ==
    SqueezeReturned =>
        \A signal \in SeqToSet(ret.res.val) :
            LET ticker == TickerOf(signal)
                sum == 30 * signal.oi_score + 20 * signal.price_score
                       + 20 * signal.crowding_score
                       + 15 * signal.funding_accel_score
                       + 15 * signal.liquidity_score
            IN  /\ InScoreRange(signal.oi_score)
                /\ InScoreRange(signal.price_score)
                /\ InScoreRange(signal.crowding_score)
                /\ InScoreRange(signal.funding_accel_score)
                /\ InScoreRange(signal.liquidity_score)
                /\ InScoreRange(signal.squeeze_score)
                /\ IsNone(DeltaOf(ticker, "oi")) => signal.oi_score = 0
                /\ IsNone(DeltaOf(ticker, "price")) => signal.price_score = 0
                /\ IsNone(ticker.funding_rate) =>
                      /\ signal.crowding_score = 0
                      /\ signal.funding_accel_score = 0
                /\ IsNone(PrevFundingOf(ticker)) => signal.funding_accel_score = 0
                /\ (IsNone(ticker.bid_price) \/ IsNone(ticker.ask_price))
                      => signal.liquidity_score = 0
                /\ Abs(100 * signal.squeeze_score - sum) <= 10 * SCORE

\* C21 witness: a signal whose OI delta and spread are beyond their maxima,
\* so that both sub-scores are held at 100, and whose funding is undefined.
C21_Witness ==
    /\ SqueezeReturned
    /\ \E signal \in SeqToSet(ret.res.val) :
          /\ ~IsNone(DeltaOf(TickerOf(signal), "oi"))
          /\ Val(DeltaOf(TickerOf(signal), "oi")) > oi_shock_max
          /\ signal.oi_score = 100 * SCORE
          /\ signal.liquidity_score = 100 * SCORE
          /\ IsNone(TickerOf(signal).funding_rate)
          /\ signal.crowding_score = 0
          /\ signal.squeeze_score = 45 * SCORE

\* the OI delta of the ticker is defined and positive
OiRising(ticker) ==
    /\ ~IsNone(DeltaOf(ticker, "oi"))
    /\ Val(DeltaOf(ticker, "oi")) > 0

---------------------------------------------------------------------------
(* Refresh cycles of the squeeze tab (src/app.py) *)

\* for t in tickers: if t.funding_rate is not None:
\*     prev_fundings[key] = t.funding_rate
RECURSIVE UpdatePrevFundings(_, _, _)
UpdatePrevFundings(prev, tickers, k) ==
    IF k > Len(tickers) THEN prev
    ELSE LET key == FundingKey(tickers[k])
             next == IF IsNone(tickers[k].funding_rate) THEN prev
                     ELSE [x \in (DOMAIN prev) \cup {key} |->
                              IF x = key THEN tickers[k].funding_rate
                                         ELSE prev[x]]
         IN  UpdatePrevFundings(next, tickers, k + 1)

\* the signals of analyze_all, then the update of the stored map unless an
\* exception ended the run
AfterAnalyzeAll(r, prev, tickers) ==
    [h |-> r.h, res |-> r.res,
     prev |-> IF r.res.exc # "" THEN prev
              ELSE UpdatePrevFundings(prev, tickers, 1)]

SqueezeTabOverwriteFirst(h, t, prev, tickers) ==
    AfterAnalyzeAll(analyze_all(h, t, tickers, UpdatePrevFundings(prev, tickers, 1)), prev, tickers)

\* the squeeze tab of one run of the script: analyze_all with the stored
\* map, then the update of the map
squeeze_tab(h, t, prev, tickers) ==
    AfterAnalyzeAll(analyze_all(h, t, tickers, prev), prev, tickers)

\* the ticker lists of the cycles: two instruments of one exchange, the
\* first healthy or not, each with or without a funding rate
TabInputs ==
    {<<SqueezeTicker("BTCUSDT", "BTC/USDT", ok_1, Some(100), funding_1),
       SqueezeTicker("ETHUSDT", "ETH/USDT", TRUE, Some(100), funding_2)>> :
        ok_1 \in BOOLEAN, funding_1 \in {None, Some(10), Some(16)},
        funding_2 \in {None, Some(-4)}}

\* one refresh cycle of the squeeze tab
SqueezeTab ==
    /\ ret.op = "none"
    /\ nOps < MaxEdgeCalls
    /\ \E tickers \in TabInputs :
          \E r \in {squeeze_tab(metricHistory, now, prevFundings, tickers)} :
              /\ metricHistory' = r.h
              /\ prevFundings' = r.prev
              /\ cycleLog' = Append(cycleLog, tickers)
              /\ ret' = [op |-> "analyze_all", tickers |-> tickers,
                         prev_fundings |-> prevFundings, res |-> r.res]
    /\ nOps' = nOps + 1
    /\ UNCHANGED <<now, gapHistory, gapLog>>

NextTab == Rerun \/ SqueezeTab

SpecTab == Init /\ [][NextTab]_vars

---------------------------------------------------------------------------
(* Claims about the refresh cycles of the squeeze tab, under SpecTab *)

\* the funding rates seen for a key in the cycles of a log, oldest first
RECURSIVE SeenFundings(_, _, _)
SeenFundings(log, exchange, symbol) ==
    IF log = <<>> THEN <<>>
    ELSE LET tickers == log[Len(log)]
             here == {k \in 1..Len(tickers) :
                         /\ tickers[k].exchange = exchange
                         /\ tickers[k].symbol = symbol
                         /\ ~IsNone(tickers[k].funding_rate)}
         IN  SeenFundings(SubSeq(log, 1, Len(log) - 1), exchange, symbol)
             \o (IF here = {} THEN <<>>
                 ELSE <<Val(tickers[CHOOSE k \in here : TRUE].funding_rate)>>)

\* the cycles before the current one
EarlierCycles == SubSeq(cycleLog, 1, Len(cycleLog) - 1)

\* the funding delta the claim gives for a ticker of the current cycle
ExpectedFundingDelta(ticker) ==
    LET seen == SeenFundings(EarlierCycles, ticker.exchange, ticker.symbol)
    IN  IF seen = <<>> \/ IsNone(ticker.funding_rate) THEN None
        ELSE Some(Val(ticker.funding_rate) - seen[Len(seen)])

\* the funding-acceleration sub-score of a delta: min(100, |d| / 0.05 * 100)
AccelScoreOf(delta) ==
    IF IsNone(delta) THEN 0
    ELSE Min(100 * SCORE, (Abs(Val(delta)) * 100 * SCORE * 100) \div (5 * PCT))

\* C23: across the refresh cycles the funding delta used for a ticker's
\* score equals its current funding rate minus the rate last seen for the
\* same exchange:symbol key in an earlier cycle, and is undefined in the
\* first cycle in which the key is seen or when the current rate is
\* absent; analyze_all reads the map before the caller overwrites it.
C23_FundingDeltaAcrossCycles ==
    (SqueezeReturned /\ cycleLog # <<>>) =>
        \A signal \in SeqToSet(ret.res.val) :
            LET expected == ExpectedFundingDelta(TickerOf(signal))
            IN  /\ signal.funding_accel_score = AccelScoreOf(expected)
                /\ IsNone(expected) => signal.funding_delta = None
                /\ (~IsNone(expected) /\ Val(expected) # 0)
                      => signal.funding_delta = expected

\* C23 witness: a key whose funding was last seen two cycles ago, in a
\* cycle in which the ticker was not healthy, gets a non-zero delta against
\* that rate.
C23_Witness ==
    /\ SqueezeReturned
    /\ Len(cycleLog) = 3
    /\ ~cycleLog[1][1].data_ok
    /\ cycleLog[1][1].funding_rate = Some(10)
    /\ cycleLog[2][1].funding_rate = None
    /\ cycleLog[3][1].funding_rate = Some(16)
    /\ \E signal \in SeqToSet(ret.res.val) :
          /\ signal.symbol = "BTC/USDT"
          /\ signal.funding_delta = Some(6)
          /\ signal.funding_accel_score = 60 * SCORE

\* the funding delta the score of a ticker was computed from
FundingDeltaOf(ticker) ==
    IF IsNone(ticker.funding_rate) \/ IsNone(PrevFundingOf(ticker)) THEN None
    ELSE Some(Val(ticker.funding_rate) - Val(PrevFundingOf(ticker)))

\* a reported value is undefined only when the underlying value is, and a
\* real zero is reported as 0
ReportsZero(reported, underlying) ==
    /\ IsNone(reported) <=> IsNone(underlying)
    /\ underlying = Some(0) => reported = Some(0)

\* C24: an undefined delta is distinguishable from a real zero in what the
\* squeeze engine reports: get_delta returns 0 when current equals a
\* non-zero reference, and the emitted signal reports oi_delta_pct,
\* price_delta_pct and funding_delta as undefined only when the underlying
\* value was undefined, and as 0 when it was a real zero.
C24_ZeroDistinctFromUndefined ==
    SqueezeReturned =>
        \A signal \in SeqToSet(ret.res.val) :
            LET ticker == TickerOf(signal)
            IN  /\ ReportsZero(signal.oi_delta_pct, DeltaOf(ticker, "oi"))
                /\ ReportsZero(signal.price_delta_pct, DeltaOf(ticker, "price"))
                /\ ReportsZero(signal.funding_delta, FundingDeltaOf(ticker))


---------------------------------------------------------------------------
(* Direct calls of calculate_spread_cost *)

\* the bid and ask of a leg: absent, one of them absent, a zero or negative
\* bid, a zero ask, bid = ask, and books of 2, 5 and 200 bps
SpreadBooks ==
    {<<None, None>>, <<Some(10000), None>>, <<None, Some(10000)>>,
     <<Some(0), Some(5)>>, <<Some(-5), Some(10)>>, <<Some(10000), Some(0)>>,
     <<Some(10000), Some(10000)>>, <<Some(20), Some(20)>>,
     <<Some(9999), Some(10001)>>, <<Some(7998), Some(8002)>>,
     <<Some(99), Some(101)>>}

SpreadTickers ==
    {WithBook(Ticker(TRUE, Some(10), Some(10000), Some(2000000)), book[1], book[2]) :
        book \in SpreadBooks}

CalculateSpreadCost ==
    /\ \E ticker_a \in SpreadTickers, ticker_b \in SpreadTickers :
          ret' = [op |-> "calculate_spread_cost",
                  ticker_a |-> ticker_a, ticker_b |-> ticker_b,
                  val |-> calculate_spread_cost(ticker_a, ticker_b)]
    /\ UNCHANGED <<prevFundings, cycleLog, now, gapHistory, metricHistory, gapLog, nOps>>

NextSpreadCost == CalculateSpreadCost

SpecSpreadCost == Init /\ [][NextSpreadCost]_vars

\* what a leg contributes: its own spread when it has one, 0 bps included,
\* and the default when it has none
OwnSpreadOrDefault(ticker) ==
    IF IsNone(spread_bps(ticker).val) THEN default_spread_bps
                                      ELSE Val(spread_bps(ticker).val)

\* C25: calculate_spread_cost returns the sum of the two legs' spreads in
\* bps, with the configured default of 5 bps for a leg exactly when that leg
\* has no computable spread; a leg whose spread is computable, a spread of
\* exactly 0 bps (bid = ask) included, contributes its own value.
C25_DefaultOnlyWithoutSpread ==
    ret.op = "calculate_spread_cost" =>
        ret.val = OwnSpreadOrDefault(ret.ticker_a) + OwnSpreadOrDefault(ret.ticker_b)


---------------------------------------------------------------------------
(* Claims about the age filter of GapTracker, under SpecGap *)

\* the entries the buffer of the pair holds: the newest max_points adds
HeldOf(symbol, ex_a, ex_b) == LastN(LogOf(symbol, ex_a, ex_b), MaxPoints)

\* the gaps of the held entries whose timestamp is inside the window
HeldInWindow(symbol, ex_a, ex_b) ==
    LET kept == SelectSeq(HeldOf(symbol, ex_a, ex_b),
                          LAMBDA e : e.ts >= now - WindowMinutes)
    IN  [i \in 1..Len(kept) |-> kept[i].gap]

\* C26: get_stability is computed over exactly the held entries of the key
\* whose timestamp is within the lookback window at read time: with fewer
\* than 3 of them it is the sentinel, however many older entries the buffer
\* still holds, and otherwise it is the population standard deviation of
\* those entries alone.
C26_OnlyInWindowEntriesCount ==
    ret.op = "get_stability" =>
        LET recent == HeldInWindow(ret.symbol, ret.ex_a, ret.ex_b)
        IN  IF Len(recent) < 3 THEN ret.val = Sentinel
            ELSE ret.val # Sentinel /\ IsPopulationStd(ret.val, recent)

\* C26 witness: the key was added to more often than the capacity, its
\* buffer is full, time has advanced without new adds until every held
\* entry is older than the window, and the read gives the sentinel.
C26_Witness ==
    /\ ret.op = "get_stability"
    /\ Len(LogOf(ret.symbol, ret.ex_a, ret.ex_b)) > MaxPoints
    /\ Len(gapHistory[_key(ret.symbol, ret.ex_a, ret.ex_b)]) = MaxPoints
    /\ Len(HeldInWindow(ret.symbol, ret.ex_a, ret.ex_b)) = 0
    /\ ret.val = Sentinel


---------------------------------------------------------------------------
(* Calls of find_opportunities with mark prices far apart *)

\* one symbol on two exchanges, binance the SHORT leg; the marks 0.37 and
\* 1.63 give a gap of 0 or of 126 % in either direction
StabilityInputs ==
    {[exchanges |-> <<"binance", "okx">>,
      symbol_order |-> <<"BTC/USDT">>,
      tickers |-> [binance |-> [symbol \in {"BTC/USDT"} |->
                                   Ticker(TRUE, Some(100), mark_a, Some(2000000))],
                   okx |-> [symbol \in {"BTC/USDT"} |->
                               Ticker(TRUE, Some(-4), mark_b, Some(2000000))]]] :
        mark_a \in {Some(37), Some(163)}, mark_b \in {Some(37), Some(163)}}

FindOpportunitiesStability ==
    FindOpportunitiesOf(StabilityInputs, {1000000}, {None, Some(-PCT)},
                        MaxEdgeCalls)

NextStability == Rerun \/ FindOpportunitiesStability

SpecStability == Init /\ [][NextStability]_vars

\* C27: the engine treats a stability value as the sentinel exactly when
\* get_stability returned the sentinel: for every real reading, whatever
\* its magnitude, the penalty gap_stability * 0.5 is subtracted from the
\* net edge and the returned opportunity reports that finite value; only
\* for the sentinel is the penalty left out and the stability reported as
\* undefined.
C27_SentinelOnlyWhenReturned ==
    ArbReturned =>
        \A e \in SeqToSet(ret.evals) :
            /\ e.gap_stability # Sentinel =>
                  Abs(2 * e.net_edge
                      - (TwiceBaseEdge(ret.inp, e) - e.gap_stability)) <= 1
            /\ \A opp \in OppsOf(e) :
                  opp.gap_stability.inf <=> e.gap_stability = Sentinel


---------------------------------------------------------------------------
(* Calls of find_opportunities with constant marks and changing fundings *)

\* one symbol on two exchanges, the marks 100.00 and 100.02 in every cycle;
\* the funding rates decide which exchange is the SHORT leg
SwapInputs ==
    {[exchanges |-> <<"binance", "okx">>,
      symbol_order |-> <<"BTC/USDT">>,
      tickers |-> [binance |-> [symbol \in {"BTC/USDT"} |->
                                   Ticker(TRUE, funding_a, Some(10000), Some(2000000))],
                   okx |-> [symbol \in {"BTC/USDT"} |->
                               Ticker(TRUE, funding_b, Some(10002), Some(2000000))]]] :
        funding_a \in {Some(-4), Some(10), Some(100)},
        funding_b \in {Some(-4), Some(10), Some(100)}}

FindOpportunitiesSwap ==
    FindOpportunitiesOf(SwapInputs, {1000000}, {None, Some(-PCT)}, MaxEdgeCalls)

NextSwap == Rerun \/ FindOpportunitiesSwap

SpecSwap == Init /\ [][NextSwap]_vars

\* C28: all the gaps stored in one series (symbol, unordered exchange pair)
\* are measured with the same orientation of the two exchanges: with the
\* mark prices unchanged from cycle to cycle every recorded gap of the
\* series is the same value, also when the funding rates change so that the
\* SHORT and the LONG leg swap, and every stability computed for the pair
\* is 0.
C28_OneOrientationPerSeries ==
    /\ \A p \in DOMAIN gapLog :
          \A i \in 1..Len(gapLog[p]), j \in 1..Len(gapLog[p]) :
              gapLog[p][i].gap = gapLog[p][j].gap
    /\ ArbReturned =>
          \A e \in SeqToSet(ret.evals) : e.gap_stability \in {0, Sentinel}

====
